---- MODULE Spec2Model ----
(***************************************************************************)
(* Model of the daily content resolver of utils/daily.ts                   *)
(* (src/unnamed/part_001): sign-label normalisation, sign candidates,      *)
(* text sanitisation, date anchors, the localStorage cache and the         *)
(* anchor-by-anchor store lookup of getDailyForecast.                      *)
(*                                                                         *)
(* Strings of the program are TLA+ strings.  TLA+ string literals are      *)
(* ASCII only, so the four Unicode dashes that normalizeDashesToHyphen     *)
(* rewrites are written with four ASCII stand-ins that occur nowhere else  *)
(* in the model's data:                                                    *)
(*     "{" = U+2012 figure dash      "~" = U+2013 en dash                  *)
(*     "^" = U+2014 em dash          "}" = U+2015 horizontal bar           *)
(* The white space of the runtime that has no TLA+ escape is written the   *)
(* same way:                                                               *)
(*     "|" = U+000B vertical tab     "&" = U+00A0 no-break space           *)
(*     "$" = U+FEFF byte order mark  "<" = U+2028 line separator           *)
(*     ">" = U+2029 paragraph separator                                    *)
(*     "%" = a space separator (category Zs) other than the blank and      *)
(*           U+00A0: U+1680, U+2000..U+200A, U+202F, U+205F, U+3000        *)
(***************************************************************************)
EXTENDS Integers, Sequences, FiniteSets, TLC

\* ---------------------------------------------------------------------------
\* Characters
\* ---------------------------------------------------------------------------
FIGURE_DASH == "{"
EN_DASH == "~"
EM_DASH == "^"
HORIZONTAL_BAR == "}"

FancyDashes == {FIGURE_DASH, EN_DASH, EM_DASH, HORIZONTAL_BAR}

LowerAlphabet == "abcdefghijklmnopqrstuvwxyz"
UpperAlphabet == "ABCDEFGHIJKLMNOPQRSTUVWXYZ"
DigitChars == {"0", "1", "2", "3", "4", "5", "6", "7", "8", "9"}

CharAt(s, i) == SubSeq(s, i, i)

LowerChars == {CharAt(LowerAlphabet, i) : i \in 1..26}
UpperChars == {CharAt(UpperAlphabet, i) : i \in 1..26}

\* String.prototype.toLowerCase / toUpperCase, one character at a time.
LowerTable ==
  [c \in UpperChars |->
     CharAt(LowerAlphabet, CHOOSE i \in 1..26 : CharAt(UpperAlphabet, i) = c)]
UpperTable ==
  [c \in LowerChars |->
     CharAt(UpperAlphabet, CHOOSE i \in 1..26 : CharAt(LowerAlphabet, i) = c)]

toLowerChar(c) == IF c \in UpperChars THEN LowerTable[c] ELSE c
toUpperChar(c) == IF c \in LowerChars THEN UpperTable[c] ELSE c

\* (Character by character; the string is halved so that a long text does
\* not nest deeply.)
RECURSIVE toLowerCase(_)
toLowerCase(s) ==
  IF Len(s) = 0 THEN ""
  ELSE IF Len(s) = 1 THEN toLowerChar(s)
  ELSE toLowerCase(SubSeq(s, 1, Len(s) \div 2))
         \o toLowerCase(SubSeq(s, (Len(s) \div 2) + 1, Len(s)))

VERTICAL_TAB == "|"
NO_BREAK_SPACE == "&"
BYTE_ORDER_MARK == "$"
LINE_SEPARATOR == "<"
PARAGRAPH_SEPARATOR == ">"
SPACE_SEPARATOR == "%"

\* WhiteSpace and LineTerminator of ECMAScript: what \s matches and what
\* String.prototype.trim removes.
WhiteSpaceChars ==
  {" ", "\n", "\t", "\r", "\f", VERTICAL_TAB, NO_BREAK_SPACE, BYTE_ORDER_MARK,
   LINE_SEPARATOR, PARAGRAPH_SEPARATOR, SPACE_SEPARATOR}

\* The regular-expression classes \s and \w.
IsSpaceChar(c) == c \in WhiteSpaceChars
IsWordChar(c) == c \in LowerChars \/ c \in UpperChars \/ c \in DigitChars \/ c = "_"

\* ---------------------------------------------------------------------------
\* Generic string functions of the JavaScript runtime
\* ---------------------------------------------------------------------------
RECURSIVE trimStart(_)
trimStart(s) ==
  IF Len(s) = 0 THEN ""
  ELSE IF IsSpaceChar(CharAt(s, 1)) THEN trimStart(SubSeq(s, 2, Len(s)))
  ELSE s

RECURSIVE trimEnd(_)
trimEnd(s) ==
  IF Len(s) = 0 THEN ""
  ELSE IF IsSpaceChar(CharAt(s, Len(s))) THEN trimEnd(SubSeq(s, 1, Len(s) - 1))
  ELSE s

trim(s) == trimStart(trimEnd(s))

\* String.prototype.includes
includes(hay, needle) ==
  \E i \in 1..(Len(hay) - Len(needle) + 1) :
     SubSeq(hay, i, i + Len(needle) - 1) = needle

\* String.prototype.split with a one-character separator: "".split(c) is
\* [""], and n separators give n + 1 pieces (empty pieces included).
SeparatorPlaces(s, sep) == {i \in 1..Len(s) : CharAt(s, i) = sep}

\* The place of the j-th separator among the places P; 0 before the first
\* and Len(s) + 1 after the last.
SeparatorPlace(s, P, j) ==
  IF j = 0 THEN 0
  ELSE IF j > Cardinality(P) THEN Len(s) + 1
  ELSE CHOOSE i \in P : Cardinality({k \in P : k <= i}) = j

PiecesBetween(s, P) ==
  [j \in 1..(Cardinality(P) + 1) |->
     SubSeq(s, SeparatorPlace(s, P, j - 1) + 1, SeparatorPlace(s, P, j) - 1)]

split(s, sep) == PiecesBetween(s, SeparatorPlaces(s, sep))

\* Array.prototype.join
RECURSIVE join(_, _)
join(xs, sep) ==
  IF Len(xs) = 0 THEN ""
  ELSE IF Len(xs) = 1 THEN xs[1]
  ELSE xs[1] \o sep \o join(Tail(xs), sep)

\* Array.prototype.filter(Boolean) on an array of strings: drops "".
filterBoolean(xs) == SelectSeq(xs, LAMBDA x : x # "")

\* The least element of a set of positive integers, 0 for the empty set.
MinOrZero(S) == IF S = {} THEN 0 ELSE CHOOSE i \in S : \A j \in S : i <= j

\* [...new Set(xs)]: first occurrences, in order.
RECURSIVE uniqueInOrder(_)
uniqueInOrder(xs) ==
  IF Len(xs) = 0 THEN <<>>
  ELSE LET front == uniqueInOrder(SubSeq(xs, 1, Len(xs) - 1))
           last == xs[Len(xs)]
       IN IF \E i \in 1..Len(front) : front[i] = last THEN front
          ELSE Append(front, last)

\* ---------------------------------------------------------------------------
\* String helpers of daily.ts
\* ---------------------------------------------------------------------------
toTitleCaseWord(w) ==
  IF Len(w) = 0 THEN ""
  ELSE toUpperChar(CharAt(w, 1)) \o toLowerCase(SubSeq(w, 2, Len(w)))

RECURSIVE normalizeDashesToHyphen(_)
normalizeDashesToHyphen(s) ==
  IF Len(s) = 0 THEN ""
  ELSE IF Len(s) = 1 THEN (IF s \in FancyDashes THEN "-" ELSE s)
  ELSE normalizeDashesToHyphen(SubSeq(s, 1, Len(s) \div 2))
         \o normalizeDashesToHyphen(SubSeq(s, (Len(s) \div 2) + 1, Len(s)))

\* s.replace(/\s+/g, ' '): every maximal run of white space becomes one blank.
RECURSIVE collapseSpaces(_)
collapseSpaces(s) ==
  IF Len(s) = 0 THEN ""
  ELSE IF IsSpaceChar(CharAt(s, 1))
       THEN " " \o collapseSpaces(trimStart(s))
       ELSE CharAt(s, 1) \o collapseSpaces(SubSeq(s, 2, Len(s)))

squashSpaces(s) == trim(collapseSpaces(s))

\* /cusp/i at the end of t
EndsWithCusp(t) ==
  /\ Len(t) >= 4
  /\ toLowerCase(SubSeq(t, Len(t) - 3, Len(t))) = "cusp"

\* s.replace(/\s*cusp\s*$/i, '').trim(): the only possible match is the last
\* "cusp" of the string together with the white space around it; t is s
\* without its trailing white space.
StripCuspFrom(s, t) ==
  IF EndsWithCusp(t) THEN trim(SubSeq(t, 1, Len(t) - 4)) ELSE trim(s)

stripTrailingCusp(s) == StripCuspFrom(s, trimEnd(s))

\* /\bcusp\b/i.test(s)
HasWordCusp(s) ==
  \E i \in 1..(Len(s) - 3) :
     /\ toLowerCase(SubSeq(s, i, i + 3)) = "cusp"
     /\ (i = 1 \/ ~IsWordChar(CharAt(s, i - 1)))
     /\ (i + 3 = Len(s) \/ ~IsWordChar(CharAt(s, i + 4)))

\* words.map(toTitleCaseWord)
TitleCaseWords(ws) == [i \in 1..Len(ws) |-> toTitleCaseWord(ws[i])]

\* part.trim().split(' ').map(toTitleCaseWord).join(' ')
titleCasePart(part) == join(TitleCaseWords(split(trim(part), " ")), " ")

\* noCusp.split('-').map(...).filter(Boolean), given the pieces of the split
SignParts(raw) == filterBoolean([i \in 1..Len(raw) |-> titleCasePart(raw[i])])

\* NormalizedSign putting "Cusp" on the compound form of every label.
NormalizedSignAlwaysCusp(parts, base, isCusp) ==
  [primaryWithCusp |-> base \o " Cusp",
   primaryNoCusp |-> base,
   parts |-> parts,
   isCusp |-> isCusp]

\* The record normalizeSignForDaily returns (an undefined primaryWithCusp is "").
NormalizedSign(parts, base, isCusp) ==
  [primaryWithCusp |-> IF isCusp THEN base \o " Cusp" ELSE "",
   primaryNoCusp |-> base,
   parts |-> parts,
   isCusp |-> isCusp]

\* normalizeSignForDaily from `parts` on
NormalizedFromParts(parts, isCusp) == NormalizedSign(parts, join(parts, "-"), isCusp)

\* normalizeSignForDaily from s = squashSpaces(input) on
NormalizedFromSquashed(s) ==
  NormalizedFromParts(
    SignParts(split(stripTrailingCusp(normalizeDashesToHyphen(s)), "-")),
    HasWordCusp(s))

normalizeSignForDaily(input) ==
  IF input = "" THEN NormalizedSign(<<>>, "", FALSE)
  ELSE NormalizedFromSquashed(squashSpaces(input))

canonSignForCompare(s) == toLowerCase(squashSpaces(normalizeDashesToHyphen(s)))
canonSignNoCusp(s) == canonSignForCompare(stripTrailingCusp(s))

\* if (x) list.push(x)
PushIfTruthy(x) == IF x # "" THEN <<x>> ELSE <<>>

\* SignAttemptsOf without the pass through new Set(list).
SignAttemptsWithDuplicates(n, allowFallback) ==
  filterBoolean(
    PushIfTruthy(n.primaryWithCusp) \o PushIfTruthy(n.primaryNoCusp)
      \o (IF ~n.isCusp \/ allowFallback THEN filterBoolean(n.parts) ELSE <<>>))

\* buildSignAttemptsForDaily from the normalized sign n on
SignAttemptsOf(n, allowFallback) ==
  filterBoolean(uniqueInOrder(
    PushIfTruthy(n.primaryWithCusp) \o PushIfTruthy(n.primaryNoCusp)
      \o (IF ~n.isCusp \/ allowFallback THEN filterBoolean(n.parts) ELSE <<>>)))

\* buildSignAttemptsForDaily pushing the component signs of every label.
buildSignAttemptsAlwaysFallback(inputLabel, allowTrueSignFallback) ==
  SignAttemptsOf(normalizeSignForDaily(inputLabel), TRUE)

buildSignAttemptsForDaily(inputLabel, allowTrueSignFallback) ==
  SignAttemptsOf(normalizeSignForDaily(inputLabel), allowTrueSignFallback)

\* "Exact or no-cusp equivalence" of the four canonical forms
\* A comparison that strips "Cusp" from the candidate only.
CanonFormsMatchCandidateStripped(canRow, canRowNoCusp, canCand, canCandNoCusp) ==
  \/ canRow = canCand
  \/ canRow = canCandNoCusp

CanonFormsMatch(canRow, canRowNoCusp, canCand, canCandNoCusp) ==
  \/ canRow = canCand
  \/ canRow = canCandNoCusp
  \/ canRowNoCusp = canCand
  \/ canRowNoCusp = canCandNoCusp

rowMatchesSign(rowSign, candidate) ==
  IF rowSign = "" \/ candidate = "" THEN FALSE
  ELSE CanonFormsMatch(canonSignForCompare(rowSign), canonSignNoCusp(rowSign),
                       canonSignForCompare(candidate), canonSignNoCusp(candidate))

\* ---------------------------------------------------------------------------
\* Halloween/Samhain scrubbers
\* ---------------------------------------------------------------------------
HALLOWEEN_MARKERS == {"halloween", "samhain", "veil walker", "pumpkin", "thinning veil"}

\* HasNoMarker comparing the line as it is written.
HasNoMarkerCaseSensitive(line) == \A m \in HALLOWEEN_MARKERS : ~includes(line, m)

\* line => !HALLOWEEN_MARKERS.some(m => line.toLowerCase().includes(m))
HasNoMarker(line) == \A m \in HALLOWEEN_MARKERS : ~includes(toLowerCase(line), m)

\* stripHalloweenLines dropping the empty lines with the marker lines.
stripHalloweenAndBlankLines(text) ==
  IF text = "" THEN ""
  ELSE trim(join(SelectSeq(split(text, "\n"),
                           LAMBDA line : HasNoMarker(line) /\ line # ""), "\n"))

stripHalloweenLines(text) ==
  IF text = "" THEN ""
  ELSE trim(join(SelectSeq(split(text, "\n"), HasNoMarker), "\n"))

sanitizeUserFacingText(s) == trim(stripHalloweenLines(normalizeDashesToHyphen(s)))

\* ---------------------------------------------------------------------------
\* Optional values: <<>> is undefined (an omitted option), <<v>> is the value v.
\* ---------------------------------------------------------------------------
Undefined == <<>>
Some(v) == <<v>>
IsDefined(o) == Len(o) > 0

\* ---------------------------------------------------------------------------
\* Hemisphere + Date helpers
\* ---------------------------------------------------------------------------
\* hemiToDB from v = (hemi || 'Southern').toString().toLowerCase() on
HemiOfLower(v) == IF v = "northern" \/ v = "nh" THEN "Northern" ELSE "Southern"

hemiToDB(hemi) ==
  HemiOfLower(toLowerCase(IF IsDefined(hemi) /\ hemi[1] # "" THEN hemi[1] ELSE "Southern"))

\* `${n}`.padStart(2, '0')
pad2(n) == IF n < 10 THEN "0" \o ToString(n) ELSE ToString(n)

\* An instant (a Date) is a number of hours since 1970-01-01T00:00Z; a time
\* zone is its offset from UTC in hours at that instant.
HoursPerDay == 24

\* The proleptic Gregorian calendar date of a day number counted from
\* 1970-01-01, as the Date getters and Intl.DateTimeFormat compute it
\* (eras of 400 years from 0000-03-01; doe, yoe, doy: day of era, year of era,
\* day of the year that starts on 1 March; mp: month counted from March).
CivilOfMonth(y, m, d) == [year |-> y + (IF m <= 2 THEN 1 ELSE 0), month |-> m, day |-> d]
CivilOfMp(y, doy, mp) ==
  CivilOfMonth(y, IF mp < 10 THEN mp + 3 ELSE mp - 9, doy - ((153 * mp + 2) \div 5) + 1)
CivilOfDoy(y, doy) == CivilOfMp(y, doy, (5 * doy + 2) \div 153)
CivilOfYoe(era, doe, yoe) ==
  CivilOfDoy(yoe + era * 400, doe - (365 * yoe + (yoe \div 4) - (yoe \div 100)))
CivilOfDoe(era, doe) ==
  CivilOfYoe(era, doe,
             (doe - (doe \div 1460) + (doe \div 36524) - (doe \div 146096)) \div 365)
CivilOfEra(z, era) == CivilOfDoe(era, z - era * 146097)
CivilFromDays(days) == CivilOfEra(days + 719468, (days + 719468) \div 146097)

\* The calendar fields of instant d seen at UTC offset off.
FieldsAt(d, off) == CivilFromDays((d + off) \div HoursPerDay)

\* The day number of a calendar date (the inverse of CivilFromDays).
DaysOfDoe(era, yoe, doy) ==
  era * 146097 + yoe * 365 + (yoe \div 4) - (yoe \div 100) + doy - 719468
DaysOfShiftedYear(ys, mp, dayOfMonth) ==
  DaysOfDoe(ys \div 400, ys % 400, ((153 * mp + 2) \div 5) + dayOfMonth - 1)
DaysFromCivil(year, month, dayOfMonth) ==
  DaysOfShiftedYear(IF month <= 2 THEN year - 1 ELSE year,
                    IF month > 2 THEN month - 3 ELSE month + 9, dayOfMonth)

\* The day of the week of a day number (0 is Sunday; 1970-01-01 was a
\* Thursday), and the day number of the n-th Sunday of a month.
WeekDay(days) == (days + 4) % 7
FirstSundayFrom(days) == days + ((7 - WeekDay(days)) % 7)
NthSunday(year, month, n) == FirstSundayFrom(DaysFromCivil(year, month, 1)) + 7 * (n - 1)

UtcYear(d) == CivilFromDays(d \div HoursPerDay).year

\* The instant from which the offsets of the time zone database follow its
\* present rules in every zone of the model: 2007-10-27T16:00Z, the start
\* of Sydney's daylight time of 2007, the last change made by an older rule
\* (Los Angeles has its rule since March 2007, Kiritimati its side of the
\* date line since 1995).  The offsets of earlier instants follow older
\* rules and are not part of the model.
PresentRulesFrom == DaysFromCivil(2007, 10, 27) * HoursPerDay + 16

\* Daylight time of the time zone database, by the present rules.  Los
\* Angeles: from 02:00 PST (10:00Z) of the second Sunday of March
\* to 02:00 PDT (09:00Z) of the first Sunday of November.  Sydney: from
\* 02:00 AEST of the first Sunday of October to 03:00 AEDT of the first
\* Sunday of April, both 16:00Z of the Saturday before.
LosAngelesDaylightIn(d, year) ==
  /\ d >= NthSunday(year, 3, 2) * HoursPerDay + 10
  /\ d < NthSunday(year, 11, 1) * HoursPerDay + 9
SydneyDaylightIn(d, year) ==
  \/ d < NthSunday(year, 4, 1) * HoursPerDay - 8
  \/ d >= NthSunday(year, 10, 1) * HoursPerDay - 8

\* IANA zones of the model.
TimeZones ==
  {"UTC", "Australia/Sydney", "America/Los_Angeles",
   "Pacific/Pago_Pago", "Pacific/Kiritimati"}

\* The offset from UTC, in hours, of zone tz at instant d, for the zones of
\* the model and the instants from PresentRulesFrom on.
TimeZoneOffset(tz, d) ==
  CASE tz = "UTC" /\ d >= PresentRulesFrom -> 0
    [] tz = "Australia/Sydney" /\ d >= PresentRulesFrom ->
         IF SydneyDaylightIn(d, UtcYear(d)) THEN 11 ELSE 10
    [] tz = "America/Los_Angeles" /\ d >= PresentRulesFrom ->
         IF LosAngelesDaylightIn(d, UtcYear(d)) THEN -7 ELSE -8
    [] tz = "Pacific/Pago_Pago" /\ d >= PresentRulesFrom -> -11
    [] tz = "Pacific/Kiritimati" /\ d >= PresentRulesFrom -> 14

\* `${y}-${m}-${day}` with a two-digit month and day
FormatYMD(f) == ToString(f.year) \o "-" \o pad2(f.month) \o "-" \o pad2(f.day)

ymdInTZ(d, timeZone) == FormatYMD(FieldsAt(d, TimeZoneOffset(timeZone, d)))

\* env.intlTimeZone is what Intl reports ("" when it reports nothing).
getUserTimeZone(env) == IF env.intlTimeZone # "" THEN env.intlTimeZone ELSE "UTC"

\* d.getFullYear() etc. read the clock in the device's zone.
anchorLocal(d, env) == FormatYMD(FieldsAt(d, TimeZoneOffset(env.deviceTimeZone, d)))

anchorUTC(d) == FormatYMD(FieldsAt(d, 0))

\* An anchor list with the three days of the user's zone ahead of the days
\* of UTC and of the device.
AnchorsInZoneUserDaysFirst(d, env, userTZ) ==
  filterBoolean(uniqueInOrder(
    << ymdInTZ(d, userTZ),
       ymdInTZ(d - HoursPerDay, userTZ),
       ymdInTZ(d + HoursPerDay, userTZ),
       anchorUTC(d),
       anchorLocal(d, env) >>))

\* buildDailyAnchors from userTZ on
AnchorsInZone(d, env, userTZ) ==
  filterBoolean(uniqueInOrder(
    << ymdInTZ(d, userTZ),                 \* todayUser
       anchorUTC(d),                       \* todayUTC
       anchorLocal(d, env),                \* todayLocal
       ymdInTZ(d - HoursPerDay, userTZ),   \* yesterdayUser
       ymdInTZ(d + HoursPerDay, userTZ) >>))  \* tomorrowUser

buildDailyAnchors(d, env) == AnchorsInZone(d, env, getUserTimeZone(env))

\* ---------------------------------------------------------------------------
\* Cache helpers
\* ---------------------------------------------------------------------------
CACHE_VERSION == "v3"

\* cacheKeyDaily without the user in the key.
cacheKeyDailyIgnoresUser(userId, sign, hemi, ymd) ==
  CACHE_VERSION \o ":daily:anon:" \o sign \o ":" \o hemi \o ":" \o ymd

cacheKeyDaily(userId, sign, hemi, ymd) ==
  CACHE_VERSION \o ":daily:" \o (IF IsDefined(userId) THEN userId[1] ELSE "anon")
     \o ":" \o sign \o ":" \o hemi \o ":" \o ymd

\* The value null, and the record every row-shaped value of the model has.
Null == [null |-> TRUE]

\* A localStorage value is a string; the model keeps whether it is JSON text
\* and, if so, the object it is the text of.
JSON_stringify(value) == [json |-> TRUE, value |-> value]
NotJSON == [json |-> FALSE, value |-> Null]

\* Storage conditions of the runtime:
\*   "ok"       window.localStorage works
\*   "nowindow" typeof window === 'undefined' (server-side rendering)
\*   "denied"   getItem and setItem throw (storage blocked)
\*   "full"     setItem throws (quota exceeded), getItem works
StorageModes == {"ok", "nowindow", "denied", "full"}

\* getFromCache without its try/catch: a throwing getItem and a value that
\* JSON.parse rejects leave the function as exceptions.
getFromCacheThrows(storage, mode, key) ==
  IF mode = "nowindow" THEN [threw |-> FALSE, value |-> Null]
  ELSE IF mode = "denied" THEN [threw |-> TRUE, value |-> Null]
  ELSE IF key \notin DOMAIN storage THEN [threw |-> FALSE, value |-> Null]
  ELSE IF ~storage[key].json THEN [threw |-> TRUE, value |-> Null]
  ELSE [threw |-> FALSE, value |-> storage[key].value]

\* getFromCache that, when the key is absent or unreadable, falls back to the
\* entry of any other cache version for the same user, sign, hemisphere and day.
getFromCacheAnyVersion(storage, mode, key) ==
  IF mode \in {"nowindow", "denied"} THEN [threw |-> FALSE, value |-> Null]
  ELSE IF key \in DOMAIN storage /\ storage[key].json
  THEN [threw |-> FALSE, value |-> storage[key].value]
  ELSE IF \E k \in DOMAIN storage :
            storage[k].json /\ SubSeq(k, 3, Len(k)) = SubSeq(key, 3, Len(key))
  THEN [threw |-> FALSE,
        value |-> storage[CHOOSE k \in DOMAIN storage :
                            storage[k].json
                              /\ SubSeq(k, 3, Len(k)) = SubSeq(key, 3, Len(key))].value]
  ELSE [threw |-> FALSE, value |-> Null]

\* getFromCache: [threw, value]; value is Null for a miss.
getFromCache(storage, mode, key) ==
  IF mode = "nowindow" THEN [threw |-> FALSE, value |-> Null]
  ELSE IF mode = "denied" THEN [threw |-> FALSE, value |-> Null]
  ELSE IF key \notin DOMAIN storage THEN [threw |-> FALSE, value |-> Null]
  ELSE IF ~storage[key].json THEN [threw |-> FALSE, value |-> Null]
  ELSE [threw |-> FALSE, value |-> storage[key].value]

\* setInCache: [threw, storage]; storage is the localStorage afterwards.
setInCache(storage, mode, key, value) ==
  IF mode \in {"nowindow", "denied", "full"} THEN [threw |-> FALSE, storage |-> storage]
  ELSE [threw |-> FALSE,
        storage |-> [k \in DOMAIN storage \cup {key} |->
                       IF k = key THEN JSON_stringify(value) ELSE storage[k]]]

\* ---------------------------------------------------------------------------
\* The backing store (table horoscope_cache) and the rows of the model
\* ---------------------------------------------------------------------------
DBRow(sign, hemisphere, date, daily, affirmation, deeper) ==
  [sign |-> sign, hemisphere |-> hemisphere, date |-> date,
   daily_horoscope |-> daily, affirmation |-> affirmation, deeper_insight |-> deeper]

StoreTable ==
  << DBRow("Leo", "Northern", "2025-10-31",
           "Shine on", "I lead", "Pride"),
     DBRow("Aries", "Northern", "2025-10-30",
           "Go first", "I begin", "Spark"),
     DBRow("Aries", "Northern", "2025-11-01",
           "Push on", "I act", "Drive"),
     DBRow("aries~taurus", "Northern", "2025-11-01",
           "Rest\nHalloween veil\nRise", "Bold ^ calm", "Pumpkin moon"),
     DBRow("Aries-Taurus Cusp", "Northern", "2025-11-02",
           "Hold { steady", "I root", "Earth"),
     DBRow("Taurus", "Southern", "2025-10-30",
           "Stand firm", "I hold", "Stone"),
     DBRow("ARIES-TAURUS", "Southern", "2025-10-30",
           "Turn in", "SAMHAIN fire\nI rest", "Deep } still"),
     DBRow("Aries", "Southern", "2025-11-01",
           "Leap", "I dare", "Flame") >>

\* .eq('hemisphere', hemi).eq('date', date)
StoreQuery(date, hemi) ==
  SelectSeq(StoreTable, LAMBDA r : r.hemisphere = hemi /\ r.date = date)

\* The rows fetchRowsForDate builds from the data of a successful response.
FetchedRows(data) ==
  [i \in 1..Len(data) |->
     [sign |-> data[i].sign, hemisphere |-> data[i].hemisphere, date |-> data[i].date,
      daily_horoscope |-> data[i].daily_horoscope,
      affirmation |-> data[i].affirmation,
      deeper_insight |-> data[i].deeper_insight,
      source_table |-> "horoscope_cache"]]

\* fetchRowsForDate, given how the store answered the request.
fetchRowsForDate(date, hemi, failed) ==
  IF failed THEN [rows |-> <<>>, error |-> TRUE]
  ELSE [rows |-> FetchedRows(StoreQuery(date, hemi)), error |-> FALSE]

\* ---------------------------------------------------------------------------
\* Inputs and environments of the model
\* ---------------------------------------------------------------------------
SignInputs == {"aries - taurus", "Aries~Taurus  cusp", "Aries Cusp"}
HemisphereInputs == {Some("NH"), Undefined}
UserIds == {Undefined, Some("u1")}
ForceDates == {Undefined, Some("2025-11-01")}
UseCacheOptions == {Undefined, Some(FALSE)}

\* The option useCache omitted, true and false.
UseCacheValues == {Undefined, Some(TRUE), Some(FALSE)}

\* 2025-10-31T20:00Z
NowInstant == 489428

\* Intl knows the device zone, or reports nothing.
Environments ==
  { [now |-> NowInstant, intlTimeZone |-> "Australia/Sydney", deviceTimeZone |-> "Australia/Sydney"],
    [now |-> NowInstant, intlTimeZone |-> "America/Los_Angeles", deviceTimeZone |-> "America/Los_Angeles"],
    [now |-> NowInstant, intlTimeZone |-> "", deviceTimeZone |-> "Australia/Sydney"] }

\* A row as an earlier session left it in localStorage.
CachedRow(sign, hemisphere, date, daily, affirmation, deeper) ==
  [sign |-> sign, hemisphere |-> hemisphere, date |-> date,
   daily_horoscope |-> daily, affirmation |-> affirmation, deeper_insight |-> deeper,
   source_table |-> "horoscope_cache"]

\* localStorage left by earlier sessions: an entry cached before the marker
\* list covered its text, an entry of the previous cache version, a value
\* that is not JSON, and an entry whose row is of another day than its key.
LegacyStorage ==
  LET stale == CachedRow("Aries-Taurus Cusp", "Northern", "2025-11-01",
                         "Veil Walker ~ hello\nStay", "Thinning veil", "Calm ^ sea")
      old == CachedRow("Aries-Taurus", "Northern", "2025-10-31",
                       "Old text", "Old vow", "Old depth")
      kStale == "v3:daily:anon:Aries-Taurus Cusp:Northern:2025-11-01"
      kOld == "v2:daily:anon:Aries-Taurus:Northern:2025-10-31"
      kBad == "v3:daily:anon:Aries-Taurus:Northern:2025-10-31"
      moved == CachedRow("Aries-Taurus Cusp", "Northern", "2025-10-30",
                         "Moved text", "Moved vow", "Moved depth")
      kMoved == "v3:daily:anon:Aries-Taurus Cusp:Northern:2025-10-31"
  IN [k \in {kStale, kOld, kBad, kMoved} |->
        IF k = kStale THEN JSON_stringify(stale)
        ELSE IF k = kOld THEN JSON_stringify(old)
        ELSE IF k = kMoved THEN JSON_stringify(moved)
        ELSE NotJSON]

EmptyStorage == [k \in {} |-> NotJSON]

InitialStorages == {EmptyStorage, LegacyStorage}

MaxCalls == 2

\* ---------------------------------------------------------------------------
\* The functions above, tabulated once over the values the model can meet
\* (the values not in a table are computed directly).
\* ---------------------------------------------------------------------------
SignAttemptsTable ==
  [s \in SignInputs |-> [fb \in BOOLEAN |-> buildSignAttemptsForDaily(s, fb)]]

NormalizedTable == [s \in SignInputs |-> normalizeSignForDaily(s)]

AnchorsTable == [e \in Environments |-> buildDailyAnchors(e.now, e)]

TextsOf(row) == {row.daily_horoscope, row.affirmation, row.deeper_insight}

SourceTexts ==
  UNION ({TextsOf(StoreTable[i]) : i \in 1..Len(StoreTable)}
         \cup {TextsOf(LegacyStorage[k].value) :
                 k \in {j \in DOMAIN LegacyStorage : LegacyStorage[j].json}})

SanitizedTable ==
  [t \in SourceTexts \cup {sanitizeUserFacingText(u) : u \in SourceTexts} |->
     sanitizeUserFacingText(t)]

StoreSigns == {StoreTable[i].sign : i \in 1..Len(StoreTable)}

Candidates ==
  UNION {{SignAttemptsTable[s][fb][i] : i \in 1..Len(SignAttemptsTable[s][fb])} :
           s \in SignInputs, fb \in BOOLEAN}

MatchTable == [r \in StoreSigns |-> [c \in Candidates |-> rowMatchesSign(r, c)]]

SignAttemptsFor(s, fb) ==
  IF s \in SignInputs THEN SignAttemptsTable[s][fb] ELSE buildSignAttemptsForDaily(s, fb)

NormalizedFor(s) ==
  IF s \in SignInputs THEN NormalizedTable[s] ELSE normalizeSignForDaily(s)

AnchorsFor(e) ==
  IF e \in Environments THEN AnchorsTable[e] ELSE buildDailyAnchors(e.now, e)

Sanitized(t) ==
  IF t \in DOMAIN SanitizedTable THEN SanitizedTable[t] ELSE sanitizeUserFacingText(t)

Matches(r, c) ==
  IF r \in StoreSigns /\ c \in Candidates THEN MatchTable[r][c] ELSE rowMatchesSign(r, c)

\* SanitizedRow leaving deeper_insight as it is.
SanitizedRowSkipsDeeperInsight(row) ==
  [row EXCEPT !.daily_horoscope = Sanitized(row.daily_horoscope),
              !.affirmation = Sanitized(row.affirmation)]

\* The three user-facing text fields of a row, sanitized (the scrub of a
\* cache hit and the `clean` object of a store hit).
SanitizedRow(row) ==
  [row EXCEPT !.daily_horoscope = Sanitized(row.daily_horoscope),
              !.affirmation = Sanitized(row.affirmation),
              !.deeper_insight = Sanitized(row.deeper_insight)]

\* FindRow taking the first row whatever its sign.
FindRowTakesFirst(rows, cand) == IF Len(rows) > 0 THEN 1 ELSE 0

\* rows.find(r => rowMatchesSign(r.sign, cand)): index of the row, 0 if none.
FindRow(rows, cand) == MinOrZero({i \in 1..Len(rows) : Matches(rows[i].sign, cand)})

\* FirstMatchingCandidate taking the last candidate that finds a row.
LastMatchingCandidate(rows, attempts) ==
  LET cs == {c \in 1..Len(attempts) : FindRow(rows, attempts[c]) > 0}
  IN IF cs = {} THEN 0 ELSE CHOOSE c \in cs : \A d \in cs : d <= c

\* for (const cand of signAttempts): index of the first candidate that finds
\* a row, 0 if none does.
FirstMatchingCandidate(rows, attempts) ==
  MinOrZero({c \in 1..Len(attempts) : FindRow(rows, attempts[c]) > 0})

\* ---------------------------------------------------------------------------
\* State
\* ---------------------------------------------------------------------------
VARIABLES
  env,           \* clock and time zones of the runtime
  storageMode,   \* condition of window.localStorage
  localStorage,  \* window.localStorage: key -> stored value
  pc,            \* "idle", "store" (loop head), "await" (request in flight), "done"
  args,          \* arguments of the running getDailyForecast call
  hemi,          \* local: hemiToDB(hemisphereIn)
  anchors,       \* local: the date anchors
  signAttempts,  \* local: the sign candidates
  ai,            \* local: index of the current anchor in the store loop
  outcome,       \* the promise: "pending", "resolved", "rejected"
  result,        \* the value the promise resolved to
  source,        \* where the result came from: "none", "cache", "store"
  matched,       \* on a store hit: the candidate and anchor that matched
  probes,        \* cache keys read by this call, in order
  writes,        \* cache keys handed to setInCache by this call
  requests,      \* store requests issued by this call, in order
  responses,     \* how each completed request of this call was answered
  calls,         \* number of calls started
  lons,          \* astronomy.ts: geocentric longitude of each planet today and a day later
  positions,     \* astronomy.ts: what getPlanetaryPositionsApprox returned
  rawText,       \* a text handed to sanitizeUserFacingText on its own
  cleanText,     \* what sanitizeUserFacingText returned for it, if it ran
  rowLabel,      \* rowMatchesSign on its own: the sign of a store row
  candLabel,     \* rowMatchesSign on its own: the candidate
  matchAnswer,   \* what rowMatchesSign returned for the two, if it ran
  lastGoodPositions, \* astronomy.ts: the Map lastGoodPositions, name -> position
  cacheWriter,   \* history: the userId of the call that stored each key written in this run
  access,        \* getAccessibleHoroscope: the call of the wrapper and what it returned
  subscriptionScreen, \* SubscriptionScreen: loading, status, actionLoading and the billing actions in flight
  mysticMish     \* MysticMish: the component, its ref isMounted and its pending work

dailyVars == <<env, storageMode, localStorage, pc, args, hemi, anchors, signAttempts,
          ai, outcome, result, source, matched, probes, writes, requests,
          responses, calls>>

\* The state of the other components.
\* The state of the screens and wrappers.
apart == <<access, subscriptionScreen, mysticMish>>

further == <<rowLabel, candLabel, matchAnswer, lastGoodPositions, cacheWriter, apart>>

\* The state outside getDailyForecast.
outside == <<lons, positions, rawText, cleanText, further>>

vars == <<dailyVars, outside>>

NoArgs ==
  [signIn |-> "", hemisphereIn |-> Undefined, userId |-> Undefined,
   forceDate |-> Undefined, useCache |-> Undefined, allowTrueSignFallback |-> FALSE]

\* No ephemeris was computed.
NoLongitudes == <<>>

NoMatch == [cand |-> "", date |-> "", rowSign |-> ""]

\* getAccessibleHoroscope is not running and has returned nothing.
NoAccess == [stage |-> "idle", useCache |-> Undefined, value |-> Null]

\* The billing actions of SubscriptionScreen.
BillingActions == {"portal", "upgrade", "monthly", "yearly", "one-off"}

\* SubscriptionScreen as useState leaves it at the first render: the effect
\* of the first render awaits refreshStatus (mount), and none of the
\* handlers runs. inFlight counts, per action, the handlers that have not
\* reached their finally; of the upgrade handlers, `refreshing` await the
\* getSubscriptionStatus of refreshStatus and `resumed` have set the status
\* and not yet resumed after `await refreshStatus()`.
NewSubscriptionScreen ==
  [loading |-> TRUE, status |-> Null, actionLoading |-> Undefined,
   mount |-> "fetching",
   inFlight |-> [a \in BillingActions |-> 0],
   refreshing |-> 0, resumed |-> 0]

\* MysticMish as useState and useRef leave it at the first render, before
\* its effect has run: effectRun counts the runs of the hemisphere effect,
\* timer is the run that armed the pending timeout (0: none), the three sets
\* hold the runs whose checkAccess, checkRitualTime and tap animation are
\* still pending, and late records what pending work of a run did after
\* that run was cleaned up.  onRitualReveal tells whether the optional prop
\* of that name is given, revealed whether it has been called, and isNov20
\* whether the device clock shows 20 November.
NewMysticMish ==
  [mounted |-> TRUE, isMounted |-> TRUE, effectRun |-> 0, timer |-> 0,
   accessPending |-> {}, ritualPending |-> {}, tapPending |-> {},
   isVisible |-> FALSE, isAnimating |-> FALSE, showRitual |-> FALSE,
   hasAccess |-> TRUE, planetaryPositions |-> "initial", currentRitual |-> "",
   onRitualReveal |-> TRUE, revealed |-> FALSE, isNov20 |-> FALSE, late |-> {}]

Init ==
  /\ env \in Environments
  /\ storageMode \in StorageModes
  /\ localStorage \in InitialStorages
  /\ pc = "idle"
  /\ args = NoArgs
  /\ hemi = "Southern"
  /\ anchors = <<>>
  /\ signAttempts = <<>>
  /\ ai = 0
  /\ outcome = "pending"
  /\ result = Null
  /\ source = "none"
  /\ matched = NoMatch
  /\ probes = <<>>
  /\ writes = <<>>
  /\ requests = <<>>
  /\ responses = <<>>
  /\ calls = 0
  /\ lons = NoLongitudes
  /\ positions = <<>>
  /\ rawText = ""
  /\ cleanText = Undefined
  /\ rowLabel = ""
  /\ candLabel = ""
  /\ matchAnswer = Undefined
  /\ lastGoodPositions = <<>>
  /\ cacheWriter = <<>>
  /\ access = NoAccess
  /\ subscriptionScreen = NewSubscriptionScreen
  /\ mysticMish = NewMysticMish

\* ---------------------------------------------------------------------------
\* getDailyForecast
\* ---------------------------------------------------------------------------
\* AnchorsOf putting the forced date in front of the ordinary anchors.
AnchorsOfForcedFirst(forceDate, e) ==
  IF IsDefined(forceDate) /\ forceDate[1] # ""
  THEN uniqueInOrder(<<forceDate[1]>> \o AnchorsFor(e))
  ELSE AnchorsFor(e)

\* opts?.forceDate ? [opts?.forceDate] : buildDailyAnchors(today)
AnchorsOf(forceDate, e) ==
  IF IsDefined(forceDate) /\ forceDate[1] # "" THEN <<forceDate[1]>> ELSE AnchorsFor(e)

\* CachePairs of the first anchor alone.
CachePairsOfFirstAnchor(as, ss) ==
  [k \in 1..(IF as = <<>> THEN 0 ELSE Len(ss)) |-> [date |-> as[1], sign |-> ss[k]]]

\* The (anchor, candidate) pairs of the cache phase, anchor-outer.
CachePairs(as, ss) ==
  [k \in 1..(Len(as) * Len(ss)) |->
     [date |-> as[((k - 1) \div Len(ss)) + 1], sign |-> ss[((k - 1) % Len(ss)) + 1]]]

\* IsCacheHit taking whatever entry the key holds.
IsCacheHitAnyEntry(cached, dateStr, h, s) == cached # Null

\* cached && cached.date === dateStr && cached.hemisphere === hemi && cached.sign === s
IsCacheHit(cached, dateStr, h, s) ==
  /\ cached # Null
  /\ cached.date = dateStr
  /\ cached.hemisphere = h
  /\ cached.sign = s

\* One pass of the inner loop of the cache phase: the key, what getFromCache
\* gave for it, and whether the pass leaves the loops (a hit, or an exception).
CacheRead(key, got, pair, h) ==
  [key |-> key, got |-> got,
   stop |-> got.threw \/ IsCacheHit(got.value, pair.date, h, pair.sign)]

CacheReads(storage, mode, userId, h, pairs) ==
  [k \in 1..Len(pairs) |->
     CacheRead(cacheKeyDaily(userId, pairs[k].sign, h, pairs[k].date),
               getFromCache(storage, mode,
                            cacheKeyDaily(userId, pairs[k].sign, h, pairs[k].date)),
               pairs[k], h)]

\* The cache phase, given its passes and the index of the first pass that
\* leaves the loops (0: none does): the keys read, how the phase ended
\* ("hit", "miss" or "threw") and the scrubbed row of a hit.
CachePhaseEnd(reads, stop) ==
  IF stop = 0
  THEN [probes |-> [k \in 1..Len(reads) |-> reads[k].key], end |-> "miss", row |-> Null]
  ELSE IF reads[stop].got.threw
  THEN [probes |-> [k \in 1..stop |-> reads[k].key], end |-> "threw", row |-> Null]
  ELSE [probes |-> [k \in 1..stop |-> reads[k].key], end |-> "hit",
        row |-> SanitizedRow(reads[stop].got.value)]

CachePhaseOf(reads) ==
  CachePhaseEnd(reads, MinOrZero({k \in 1..Len(reads) : reads[k].stop}))

CachePhase(storage, mode, userId, h, as, ss) ==
  CachePhaseOf(CacheReads(storage, mode, userId, h, CachePairs(as, ss)))

\* The state after the cache phase `phase` of the call.
AfterCachePhase(phase) ==
  /\ probes' = phase.probes
  /\ pc' = IF phase.end = "miss" THEN "store" ELSE "done"
  /\ outcome' = CASE phase.end = "miss" -> "pending"
                  [] phase.end = "hit" -> "resolved"
                  [] phase.end = "threw" -> "rejected"
  /\ result' = phase.row
  /\ source' = IF phase.end = "hit" THEN "cache" ELSE "none"

\* CallWith running the cache phase whatever useCache says.
CallWithCacheAlwaysRead(userId, useCache, h, as, ss) ==
  /\ hemi' = h
  /\ anchors' = as
  /\ signAttempts' = ss
  /\ AfterCachePhase(CachePhase(localStorage, storageMode, userId, h, as, ss))

\* The call with its locals h (hemi), as (anchors) and ss (signAttempts).
CallWith(userId, useCache, h, as, ss) ==
  /\ hemi' = h
  /\ anchors' = as
  /\ signAttempts' = ss
  /\ AfterCachePhase(
       IF useCache # Some(FALSE)
       THEN CachePhase(localStorage, storageMode, userId, h, as, ss)
       ELSE [probes |-> <<>>, end |-> "miss", row |-> Null])

\* getDailyForecast(signIn, hemisphereIn, opts) up to its first await or
\* return: the locals and the whole cache phase.
CallBody(signIn, hemisphereIn, userId, forceDate, useCache, allowTrueSignFallback) ==
  /\ pc = "idle"
  /\ calls < MaxCalls
  /\ args' = [signIn |-> signIn, hemisphereIn |-> hemisphereIn, userId |-> userId,
              forceDate |-> forceDate, useCache |-> useCache,
              allowTrueSignFallback |-> allowTrueSignFallback]
  /\ CallWith(userId, useCache, hemiToDB(hemisphereIn), AnchorsOf(forceDate, env),
              SignAttemptsFor(signIn, allowTrueSignFallback))
  /\ ai' = 1
  /\ calls' = calls + 1
  /\ matched' = NoMatch
  /\ writes' = <<>>
  /\ requests' = <<>>
  /\ responses' = <<>>
  /\ UNCHANGED <<env, storageMode, localStorage>>

\* A call of getDailyForecast by a screen.
Call(signIn, hemisphereIn, userId, forceDate, useCache, allowTrueSignFallback) ==
  /\ CallBody(signIn, hemisphereIn, userId, forceDate, useCache, allowTrueSignFallback)
  /\ UNCHANGED outside

\* A loop that sends the requests of every anchor left before awaiting any.
FetchAllAnchors ==
  /\ pc = "store"
  /\ ai <= Len(anchors)
  /\ requests' = requests \o [k \in 1..(Len(anchors) - ai + 1) |->
                                [date |-> anchors[ai + k - 1], hemisphere |-> hemi]]
  /\ pc' = "await"
  /\ UNCHANGED <<env, storageMode, localStorage, args, hemi, anchors, signAttempts,
                 ai, outcome, result, source, matched, probes, writes, responses, calls>>
  /\ UNCHANGED outside

\* Loop head of the store phase with an anchor left: the request of
\* fetchRowsForDate goes out and the call awaits it.
Fetch ==
  /\ pc = "store"
  /\ ai <= Len(anchors)
  /\ requests' = Append(requests, [date |-> anchors[ai], hemisphere |-> hemi])
  /\ pc' = "await"
  /\ UNCHANGED <<env, storageMode, localStorage, args, hemi, anchors, signAttempts,
                 ai, outcome, result, source, matched, probes, writes, responses, calls>>
  /\ UNCHANGED outside

\* A loop that starts over from the first anchor when the list is used up.
NotFoundStartsOver ==
  /\ pc = "store"
  /\ ai > Len(anchors)
  /\ ai' = 1
  /\ requests' = <<>>
  /\ responses' = <<>>
  /\ UNCHANGED <<env, storageMode, localStorage, pc, args, hemi, anchors, signAttempts,
                 outcome, result, source, matched, probes, writes, calls>>
  /\ UNCHANGED outside

\* Loop head with no anchor left: return null.
NotFound ==
  /\ pc = "store"
  /\ ai > Len(anchors)
  /\ pc' = "done"
  /\ outcome' = "resolved"
  /\ result' = Null
  /\ UNCHANGED <<env, storageMode, localStorage, args, hemi, anchors, signAttempts,
                 ai, source, matched, probes, writes, requests, responses, calls>>
  /\ UNCHANGED outside

\* What one pass of the body of the store loop comes to: "continue" (next
\* anchor), "return" (the call returns value) or "throw" (an exception leaves
\* the call); key is the cache key handed to setInCache ("" if none was).
Continue(storage) ==
  [kind |-> "continue", value |-> Null, key |-> "", storage |-> storage,
   cand |-> "", rowSign |-> ""]

\* The store hit: `clean` goes to the cache under `key` and is returned.
ReturnClean(clean, key, set, cand, rowSign) ==
  [kind |-> IF set.threw THEN "throw" ELSE "return",
   value |-> clean, key |-> key, storage |-> set.storage,
   cand |-> cand, rowSign |-> rowSign]

CacheAndReturn(clean, key, cand, rowSign, storage, mode) ==
  ReturnClean(clean, key, setInCache(storage, mode, key, clean), cand, rowSign)

StoreHit(match, cand, dateStr, h, userId, storage, mode) ==
  CacheAndReturn(SanitizedRow(match), cacheKeyDaily(userId, match.sign, h, dateStr),
                 cand, match.sign, storage, mode)

\* The loop body letting the error of the store leave the call.
LoopBodyThrowsOnError(rows, error, c, attempts, dateStr, h, userId, storage, mode) ==
  IF error THEN [Continue(storage) EXCEPT !.kind = "throw"]
  ELSE IF Len(rows) = 0 THEN Continue(storage)
  ELSE IF c = 0 THEN Continue(storage)
  ELSE StoreHit(rows[FindRow(rows, attempts[c])], attempts[c], dateStr, h, userId,
                storage, mode)

\* The loop body with the short circuit that the specification describes:
\* rows without a match end the call with null.
LoopBodyStopsOnUnmatchedRows(rows, error, c, attempts, dateStr, h, userId, storage, mode) ==
  IF error THEN Continue(storage)
  ELSE IF Len(rows) = 0 THEN Continue(storage)
  ELSE IF c = 0 THEN [Continue(storage) EXCEPT !.kind = "return"]
  ELSE StoreHit(rows[FindRow(rows, attempts[c])], attempts[c], dateStr, h, userId,
                storage, mode)

\* The loop body from the answer of fetchRowsForDate on; c is the index of
\* the first candidate that finds a row among rows (0: none).
LoopBodyOn(rows, error, c, attempts, dateStr, h, userId, storage, mode) ==
  IF error THEN Continue(storage)
  ELSE IF Len(rows) = 0 THEN Continue(storage)
  ELSE IF c = 0 THEN Continue(storage)
  ELSE StoreHit(rows[FindRow(rows, attempts[c])], attempts[c], dateStr, h, userId,
                storage, mode)

LoopBodyOf(fetched, attempts, dateStr, h, userId, storage, mode) ==
  LoopBodyOn(fetched.rows, fetched.error,
             FirstMatchingCandidate(fetched.rows, attempts),
             attempts, dateStr, h, userId, storage, mode)

LoopBody(dateStr, h, failed, attempts, userId, storage, mode) ==
  LoopBodyOf(fetchRowsForDate(dateStr, h, failed), attempts, dateStr, h, userId,
             storage, mode)

\* How the store answered: "error", "empty" (no rows) or "rows".
ResponseKind(failed, data) ==
  IF failed THEN "error" ELSE IF Len(data) = 0 THEN "empty" ELSE "rows"

\* The state after the pass `body` of the loop body.
AfterLoopBody(body) ==
  /\ localStorage' = body.storage
  /\ writes' = IF body.key # "" THEN Append(writes, body.key) ELSE writes
  /\ matched' = IF body.key # ""
                THEN [cand |-> body.cand, date |-> anchors[ai], rowSign |-> body.rowSign]
                ELSE matched
  /\ ai' = IF body.kind = "continue" THEN ai + 1 ELSE ai
  /\ pc' = IF body.kind = "continue" THEN "store" ELSE "done"
  /\ outcome' = CASE body.kind = "continue" -> outcome
                  [] body.kind = "return" -> "resolved"
                  [] body.kind = "throw" -> "rejected"
  /\ result' = IF body.kind = "return" THEN body.value ELSE result
  /\ source' = IF body.kind = "return" /\ body.value # Null THEN "store" ELSE source
  /\ cacheWriter' = IF body.key # "" /\ storageMode = "ok"
                    THEN [k \in DOMAIN cacheWriter \cup {body.key} |->
                            IF k = body.key THEN args.userId ELSE cacheWriter[k]]
                    ELSE cacheWriter

\* The awaited request is answered (failed: with an error) and the call runs
\* on to its next await or to its return.
Respond(failed) ==
  /\ pc = "await"
  /\ responses' = Append(responses, ResponseKind(failed, StoreQuery(anchors[ai], hemi)))
  /\ AfterLoopBody(LoopBody(anchors[ai], hemi, failed, signAttempts, args.userId,
                            localStorage, storageMode))
  /\ UNCHANGED <<env, storageMode, args, hemi, anchors, signAttempts, probes,
                 requests, calls>>
  /\ UNCHANGED <<lons, positions, rawText, cleanText,
                 rowLabel, candLabel, matchAnswer, lastGoodPositions, apart>>

RespondRows == Respond(FALSE)
RespondError == Respond(TRUE)

\* The caller takes the settled promise; the next call may start.
Finish ==
  /\ pc = "done"
  /\ access.stage # "awaiting"
  /\ pc' = "idle"
  /\ args' = NoArgs
  /\ hemi' = "Southern"
  /\ anchors' = <<>>
  /\ signAttempts' = <<>>
  /\ ai' = 0
  /\ outcome' = "pending"
  /\ result' = Null
  /\ source' = "none"
  /\ matched' = NoMatch
  /\ probes' = <<>>
  /\ writes' = <<>>
  /\ requests' = <<>>
  /\ responses' = <<>>
  /\ UNCHANGED <<env, storageMode, localStorage, calls>>
  /\ UNCHANGED outside

Next ==
  \/ \E s \in SignInputs, h \in HemisphereInputs, u \in UserIds, f \in ForceDates,
        uc \in UseCacheOptions, fb \in BOOLEAN :
        Call(s, h, u, f, uc, fb)
  \/ Fetch
  \/ NotFound
  \/ RespondRows
  \/ RespondError
  \/ Finish

Spec == Init /\ [][Next]_vars

\* The await of fetchRowsForDate ends: the call is back at the loop head or
\* has returned.  Of the steps of Next these are the steps of RespondRows and
\* RespondError, and no others.
AwaitEnds == pc = "await" /\ pc' \in {"store", "done"}

\* The same program when the event loop keeps running the call (a loop head
\* that can run does run) and the store answers every request it is sent,
\* with rows or with an error.
SpecAnswered ==
  /\ Init
  /\ [][Next]_vars
  /\ WF_vars(Fetch)
  /\ WF_vars(NotFound)
  /\ WF_pc(AwaitEnds)

\* ---------------------------------------------------------------------------
\* Properties of the store phase
\* ---------------------------------------------------------------------------
\* The rows the store holds for the i-th request of the running call.
RowsOfRequest(i) == FetchedRows(StoreQuery(requests[i].date, requests[i].hemisphere))

\* The i-th request was answered with rows and one of them matches a candidate.
MatchedAt(i) ==
  /\ responses[i] = "rows"
  /\ \E j \in 1..Len(RowsOfRequest(i)), c \in 1..Len(signAttempts) :
        Matches(RowsOfRequest(i)[j].sign, signAttempts[c])

\* The i-th request was answered with at least one row, none of them matching.
RowsWithoutMatchAt(i) == responses[i] = "rows" /\ ~MatchedAt(i)

\* C1 as stated: once an anchor has returned rows of which none matches, the
\* call issues no request for a later anchor and returns null.
C1_StopsAfterUnmatchedRows ==
  \A i \in 1..Len(responses) :
     RowsWithoutMatchAt(i) =>
        /\ Len(requests) = i
        /\ (pc = "done" => result = Null)

\* What the store loop does instead of C1: an anchor whose rows match no
\* candidate is passed over like an anchor without rows.  Requests follow the
\* anchor list one by one, the call moves past an anchor exactly when that
\* anchor gave no matching row, and null is returned from the store phase
\* only after every anchor was fetched.
C1_AdvancesPastUnmatchedRows ==
  /\ \A i \in 1..Len(requests) :
        requests[i] = [date |-> anchors[i], hemisphere |-> hemi]
  /\ \A i \in 1..Len(responses) :
        /\ (i < Len(requests) => ~MatchedAt(i))
        /\ (~MatchedAt(i) /\ pc = "done" /\ i < Len(anchors) => i < Len(requests))
  /\ (pc = "done" /\ source = "none" /\ outcome = "resolved") =>
        /\ result = Null
        /\ Len(responses) = Len(anchors)
        /\ \A i \in 1..Len(responses) : ~MatchedAt(i)

\* An anchor returned rows without a match, a later anchor was fetched and
\* the call returned the row found there.
C1_Witness ==
  /\ pc = "done"
  /\ source = "store"
  /\ \E i \in 1..Len(responses) : RowsWithoutMatchAt(i) /\ i < Len(requests)
  /\ \E i \in 1..Len(responses) : responses[i] = "empty" /\ i < Len(requests)

\* The row of the store table that a result r is the sanitized copy of.
IsSanitizedCopyOf(r, row) ==
  r = [sign |-> row.sign, hemisphere |-> row.hemisphere, date |-> row.date,
       daily_horoscope |-> Sanitized(row.daily_horoscope),
       affirmation |-> Sanitized(row.affirmation),
       deeper_insight |-> Sanitized(row.deeper_insight),
       source_table |-> "horoscope_cache"]

\* Row j of the store table is what the search of anchor day d must find: it
\* is the first row of (d, hemi) that matches the first candidate that
\* matches any row of (d, hemi).
IsFirstMatchOfDay(j, d) ==
  /\ StoreTable[j].date = d
  /\ StoreTable[j].hemisphere = hemi
  /\ \E c \in 1..Len(signAttempts) :
        /\ Matches(StoreTable[j].sign, signAttempts[c])
        /\ \A i \in 1..Len(StoreTable) :
              (StoreTable[i].date = d /\ StoreTable[i].hemisphere = hemi) =>
                 /\ \A b \in 1..(c - 1) : ~Matches(StoreTable[i].sign, signAttempts[b])
                 /\ (i < j => ~Matches(StoreTable[i].sign, signAttempts[c]))

\* C2: with no cache hit, when the anchors before anchor k all returned zero
\* rows and anchor k returned a row that matches a candidate, the call has
\* returned the sanitized copy of the matching row of anchor k (the first row
\* of the first candidate that matches), not null.
C2_ReturnsMatchAfterEmptyAnchors ==
  \A k \in 1..Len(responses) :
     ((\A i \in 1..(k - 1) : responses[i] = "empty") /\ MatchedAt(k)) =>
        /\ pc = "done"
        /\ outcome = "resolved"
        /\ source = "store"
        /\ result # Null
        /\ \E j \in 1..Len(StoreTable) :
              IsFirstMatchOfDay(j, anchors[k]) /\ IsSanitizedCopyOf(result, StoreTable[j])

\* Anchor 1 returned zero rows, anchor 2 returned several rows and the row
\* returned is not the first of them.
C2_Witness ==
  /\ pc = "done"
  /\ source = "store"
  /\ responses = <<"empty", "rows">>
  /\ result.date = anchors[2]
  /\ result.sign # RowsOfRequest(2)[1].sign

\* ---------------------------------------------------------------------------
\* Properties of the returned text
\* ---------------------------------------------------------------------------
\* No figure, en or em dash, and no line with a marker in any letter case.
IsCleanText(t) ==
  /\ \A i \in 1..Len(t) : CharAt(t, i) \notin {FIGURE_DASH, EN_DASH, EM_DASH}
  /\ \A m \in HALLOWEEN_MARKERS :
        \A i \in 1..Len(split(t, "\n")) : ~includes(toLowerCase(split(t, "\n")[i]), m)

CleanTable == [t \in DOMAIN SanitizedTable |-> IsCleanText(t)]

IsClean(t) == IF t \in DOMAIN CleanTable THEN CleanTable[t] ELSE IsCleanText(t)

\* C3: every row the call returns, from the cache or from the store, has its
\* three user-facing text fields free of marker lines and of figure, en and em
\* dashes.
C3_ReturnedTextIsSanitized ==
  (pc = "done" /\ outcome = "resolved" /\ result # Null) =>
     /\ IsClean(result.daily_horoscope)
     /\ IsClean(result.affirmation)
     /\ IsClean(result.deeper_insight)

\* A cache hit on an entry that was stored with a marker line and dashes in it.
C3_Witness ==
  /\ pc = "done"
  /\ source = "cache"
  /\ LET stored == localStorage[probes[Len(probes)]].value
     IN /\ ~IsClean(stored.daily_horoscope)
        /\ ~IsClean(stored.affirmation)
        /\ ~IsClean(stored.deeper_insight)
        /\ result.sign = stored.sign

\* ---------------------------------------------------------------------------
\* Properties of the anchors
\* ---------------------------------------------------------------------------
\* The cache key k ends with ":" and the day d.
KeyIsForDay(k, d) ==
  /\ Len(k) > Len(d)
  /\ SubSeq(k, Len(k) - Len(d), Len(k)) = ":" \o d

\* C4: in a call with a forced date, that date is the only anchor: every
\* cache key read, every store request and every cache key written is for it.
C4_ForcedDateIsSoleAnchor ==
  (pc # "idle" /\ IsDefined(args.forceDate)) =>
     /\ anchors = <<args.forceDate[1]>>
     /\ \A i \in 1..Len(probes) : KeyIsForDay(probes[i], args.forceDate[1])
     /\ \A i \in 1..Len(requests) : requests[i].date = args.forceDate[1]
     /\ Len(requests) <= 1
     /\ \A i \in 1..Len(writes) : KeyIsForDay(writes[i], args.forceDate[1])

\* A forced date that is not the first ordinary anchor: the cache was read,
\* the store was asked and the row found was written to the cache.
C4_Witness ==
  /\ pc = "done"
  /\ IsDefined(args.forceDate)
  /\ buildDailyAnchors(env.now, env)[1] # args.forceDate[1]
  /\ Len(buildDailyAnchors(env.now, env)) > 1
  /\ Len(probes) > 0
  /\ Len(requests) = 1
  /\ Len(writes) = 1
  /\ source = "store"

\* ---------------------------------------------------------------------------
\* buildSignAttemptsForDaily on its own
\* ---------------------------------------------------------------------------
\* Pieces of which sign labels are put together; "~" is an en dash.
SignTokens == {"aries", "TAURUS", "cusp", "-", "~", " "}

MaxTokens == 3

\* The labels of at most n tokens.
RECURSIVE LabelsUpTo(_)
LabelsUpTo(n) ==
  IF n = 0 THEN {""}
  ELSE LabelsUpTo(n - 1) \cup {l \o t : l \in LabelsUpTo(n - 1), t \in SignTokens}

SignLabels ==
  LabelsUpTo(MaxTokens) \cup SignInputs
    \cup {"aries - taurus cusp", "Aries-Taurus Cusp", "Ariescusp", "aries_cusp"}
    \cup {"aries\ftaurus", "Aries&Cusp", "|aries%", "aries<-$taurus cusp>"}

InitSigns ==
  /\ env \in {e \in Environments : e.intlTimeZone = ""}
  /\ storageMode = "nowindow"
  /\ localStorage = EmptyStorage
  /\ pc = "idle"
  /\ args \in {[NoArgs EXCEPT !.signIn = l] : l \in SignLabels}
  /\ hemi = "Southern"
  /\ anchors = <<>>
  /\ signAttempts = <<>>
  /\ ai = 0
  /\ outcome = "pending"
  /\ result = Null
  /\ source = "none"
  /\ matched = NoMatch
  /\ probes = <<>>
  /\ writes = <<>>
  /\ requests = <<>>
  /\ responses = <<>>
  /\ calls = 0
  /\ lons = NoLongitudes
  /\ positions = <<>>
  /\ rawText = ""
  /\ cleanText = Undefined
  /\ rowLabel = ""
  /\ candLabel = ""
  /\ matchAnswer = Undefined
  /\ lastGoodPositions = <<>>
  /\ cacheWriter = <<>>
  /\ access = NoAccess
  /\ subscriptionScreen = NewSubscriptionScreen
  /\ mysticMish = NewMysticMish

\* signAttempts = buildSignAttemptsForDaily(signIn, { allowTrueSignFallback })
BuildSignAttempts(allowTrueSignFallback) ==
  /\ pc = "idle"
  /\ pc' = "done"
  /\ args' = [args EXCEPT !.allowTrueSignFallback = allowTrueSignFallback]
  /\ signAttempts' = buildSignAttemptsForDaily(args.signIn, allowTrueSignFallback)
  /\ UNCHANGED <<env, storageMode, localStorage, hemi, anchors, ai, outcome, result,
                 source, matched, probes, writes, requests, responses, calls>>
  /\ UNCHANGED outside

NextSigns == \E fb \in BOOLEAN : BuildSignAttempts(fb)

SpecSigns == InitSigns /\ [][NextSigns]_vars

\* C5 as stated: "aries - taurus" gives the two forms with and without "Cusp",
\* and with the fallback allowed the two component signs after them.
C5_AriesTaurusGivesCuspForms ==
  (pc = "done" /\ args.signIn = "aries - taurus") =>
     signAttempts = IF args.allowTrueSignFallback
                    THEN <<"Aries-Taurus Cusp", "Aries-Taurus", "Aries", "Taurus">>
                    ELSE <<"Aries-Taurus Cusp", "Aries-Taurus">>

\* C5 amended: "aries - taurus" does not contain the word cusp, so it gives
\* "Aries-Taurus", "Aries", "Taurus" with and without the fallback; the lists
\* of the claim are what the label "aries - taurus cusp" gives.
C5_AriesTaurusAttempts ==
  /\ (pc = "done" /\ args.signIn = "aries - taurus") =>
        signAttempts = <<"Aries-Taurus", "Aries", "Taurus">>
  /\ (pc = "done" /\ args.signIn = "aries - taurus cusp") =>
        signAttempts = IF args.allowTrueSignFallback
                       THEN <<"Aries-Taurus Cusp", "Aries-Taurus", "Aries", "Taurus">>
                       ELSE <<"Aries-Taurus Cusp", "Aries-Taurus">>

\* The candidates of "aries - taurus" were built without the fallback.
C5_Witness ==
  /\ pc = "done"
  /\ args.signIn = "aries - taurus"
  /\ ~args.allowTrueSignFallback
  /\ Len(signAttempts) = 3

\* The component signs a compound form stands for, each once, in the order of
\* their first place in the compound; a compound of one sign has none besides
\* itself.
ComponentsOf(compound) ==
  SelectSeq(uniqueInOrder(split(compound, "-")), LAMBDA p : p # compound)

\* The candidates `out` of a label, k being the place of the compound form
\* without "Cusp" (2 for a cusp label, 1 otherwise).
AttemptsInOrder(out, k, isCusp, allowFallback) ==
  /\ \A i \in 1..Len(out) : out[i] # ""
  /\ \A i, j \in 1..Len(out) : out[i] = out[j] => i = j
  /\ isCusp => /\ Len(out) >= 1
               /\ out[1] = (IF Len(out) >= 2 THEN out[2] ELSE "") \o " Cusp"
  /\ Len(out) >= k =>
        SubSeq(out, k + 1, Len(out)) =
          IF ~isCusp \/ allowFallback THEN ComponentsOf(out[k]) ELSE <<>>

\* C6: for every label and option the candidates are non-empty strings
\* without duplicates, in the order: compound form with "Cusp" (exactly when
\* the label contains the word cusp), compound form without "Cusp", component
\* signs from left to right; the component signs are there only if the label
\* is not a cusp or the fallback is allowed.
C6_AttemptsAreOrderedAndUnique ==
  pc = "done" =>
     AttemptsInOrder(signAttempts, IF HasWordCusp(args.signIn) THEN 2 ELSE 1,
                     HasWordCusp(args.signIn), args.allowTrueSignFallback)

\* A cusp label of one sign with the fallback allowed: the component sign is
\* the compound form and appears once.
C6_Witness ==
  /\ pc = "done"
  /\ args.signIn = "aries-cusp"
  /\ args.allowTrueSignFallback
  /\ signAttempts = <<"Aries Cusp", "Aries">>

\* ---------------------------------------------------------------------------
\* Properties of cusp labels in getDailyForecast
\* ---------------------------------------------------------------------------
\* The component signs of the label of the running call.
PartsOfCall == NormalizedFor(args.signIn).parts

\* The call is for a label with the word cusp and without the fallback.
IsStrictCuspCall ==
  /\ pc # "idle"
  /\ NormalizedFor(args.signIn).isCusp
  /\ ~args.allowTrueSignFallback

\* The sign is one of the component signs of the label of the call.
IsComponentSign(sign) == \E p \in 1..Len(PartsOfCall) : Matches(sign, PartsOfCall[p])

\* C7 as stated: a call for a cusp label without the fallback never returns a
\* row signed with one of the component signs of the label.
C7_CuspNeverReturnsComponentRow ==
  (IsStrictCuspCall /\ pc = "done" /\ result # Null) => ~IsComponentSign(result.sign)

\* C7 amended: a call for a cusp label of two or more component signs without
\* the fallback never returns, from the cache or the store, a row signed with
\* one of the component signs, and it passes over an anchor day whose rows are
\* all of that kind.
C7_CompoundCuspNeverReturnsComponentRow ==
  (IsStrictCuspCall /\ Len(PartsOfCall) >= 2) =>
     /\ (pc = "done" /\ result # Null) => ~IsComponentSign(result.sign)
     /\ \A i \in 1..Len(responses) :
           (\A j \in 1..Len(RowsOfRequest(i)) : IsComponentSign(RowsOfRequest(i)[j].sign))
              => ~MatchedAt(i)

\* A cusp call without the fallback met an anchor day whose only row is
\* signed with a component sign, went on and returned a row of a later day.
C7_Witness ==
  /\ IsStrictCuspCall
  /\ Len(PartsOfCall) >= 2
  /\ pc = "done"
  /\ source = "store"
  /\ \E i \in 1..(Len(responses) - 1) :
        /\ responses[i] = "rows"
        /\ Len(RowsOfRequest(i)) = 1
        /\ IsComponentSign(RowsOfRequest(i)[1].sign)

\* ---------------------------------------------------------------------------
\* Properties of failures
\* ---------------------------------------------------------------------------
\* The i-th request was answered with an error.
ErrorAt(i) == responses[i] = "error"

\* C8: a store error on an anchor is passed over like an answer without rows:
\* the call does not fail, the next anchor in order is requested, nothing is
\* returned or cached for the failed anchor, and a search in which every
\* anchor failed or gave no match resolves to null.
C8_StoreErrorIsSkipped ==
  /\ (\E i \in 1..Len(responses) : ErrorAt(i)) => outcome # "rejected"
  /\ \A i \in 1..Len(responses) :
        ErrorAt(i) =>
           /\ (i = Len(responses) /\ pc # "done") =>
                 /\ ai = i + 1 /\ outcome = "pending" /\ writes = <<>>
                 /\ pc = "store" \/ (pc = "await" /\ Len(requests) = i + 1)
           /\ (i = Len(responses) /\ pc = "done") =>
                 (i = Len(anchors) /\ outcome = "resolved" /\ result = Null)
           /\ (i < Len(requests)) =>
                 requests[i + 1] = [date |-> anchors[i + 1], hemisphere |-> hemi]
  /\ (pc = "done" /\ Len(responses) > 0
        /\ \A i \in 1..Len(responses) : ErrorAt(i) \/ ~MatchedAt(i)) =>
        (outcome = "resolved" /\ result = Null /\ source = "none"
           /\ Len(responses) = Len(anchors))

\* Every anchor of a call with three anchors was answered with an error and
\* the call resolved to null.
C8_Witness ==
  /\ pc = "done"
  /\ Len(anchors) = 3
  /\ Len(responses) = 3
  /\ \A i \in 1..3 : ErrorAt(i)
  /\ outcome = "resolved"
  /\ result = Null

\* What the call returns from the store alone, given how its requests were
\* answered: the sanitized first matching row of the last anchor asked if
\* that anchor gave a match, null otherwise.
IsStoreOnlyResult(r) ==
  IF Len(responses) > 0 /\ MatchedAt(Len(responses))
  THEN \E j \in 1..Len(StoreTable) :
          /\ IsFirstMatchOfDay(j, anchors[Len(responses)])
          /\ IsSanitizedCopyOf(r, StoreTable[j])
  ELSE r = Null

\* C9: failures of the cache never reach the caller.  A read that fails (no
\* window, getItem throws, the value is not JSON) is a miss; a write that
\* fails after a store hit leaves the row returned; the result is then what
\* the store alone gives.
C9_CacheFailuresAreSwallowed ==
  /\ outcome # "rejected"
  /\ (storageMode \in {"nowindow", "denied"}) => source # "cache"
  /\ source = "cache" =>
        /\ probes[Len(probes)] \in DOMAIN localStorage
        /\ localStorage[probes[Len(probes)]].json
  /\ (pc = "done" /\ source # "cache") =>
        /\ outcome = "resolved"
        /\ IsStoreOnlyResult(result)
  /\ (storageMode # "ok" /\ Len(writes) > 0) =>
        (pc = "done" /\ source = "store" /\ result # Null)

\* getItem and setItem throw; the cache holds an entry that the call would
\* have hit, the call read its key, went to the store and returned the row
\* found there although the write failed.
C9_Witness ==
  /\ storageMode = "denied"
  /\ pc = "done"
  /\ source = "store"
  /\ Len(writes) = 1
  /\ \E i \in 1..Len(probes) :
        /\ probes[i] \in DOMAIN localStorage
        /\ localStorage[probes[i]].json
        /\ localStorage[probes[i]].value.sign \in {signAttempts[c] : c \in 1..Len(signAttempts)}
        /\ localStorage[probes[i]].value.hemisphere = hemi
        /\ localStorage[probes[i]].value.date \in {anchors[a] : a \in 1..Len(anchors)}

\* ---------------------------------------------------------------------------
\* Properties of the cache write
\* ---------------------------------------------------------------------------
\* The user part of a cache key of the running call.
UserPartOfCall == IF IsDefined(args.userId) THEN args.userId[1] ELSE "anon"

\* C10 as stated: the row of a store hit is written under the key of the
\* sign candidate that matched.
C10_KeyIsOfMatchedCandidate ==
  (pc = "done" /\ source = "store") =>
     writes = << "v3:daily:" \o UserPartOfCall \o ":" \o matched.cand \o ":" \o hemi
                   \o ":" \o anchors[Len(responses)] >>

\* What the cache write does instead of C10: the row of a store hit is
\* written once, sanitized, under the key of the cache version, the user (or
\* "anon"), the sign of the matched row as the store spells it, the
\* hemisphere and the anchor day of the match, and that row is returned.
C10_KeyIsOfMatchedRowSign ==
  (pc = "done" /\ source = "store") =>
     /\ result # Null
     /\ result.sign = matched.rowSign
     /\ matched.date = anchors[Len(responses)]
     /\ Matches(matched.rowSign, matched.cand)
     /\ writes = << "v3:daily:" \o UserPartOfCall \o ":" \o result.sign \o ":" \o hemi
                      \o ":" \o anchors[Len(responses)] >>
     /\ storageMode = "ok" =>
           /\ writes[1] \in DOMAIN localStorage
           /\ localStorage[writes[1]] = JSON_stringify(result)

\* A store hit of a signed-in user on a row whose sign is spelled differently
\* from the candidate that matched it, written to a working cache.
C10_Witness ==
  /\ pc = "done"
  /\ source = "store"
  /\ storageMode = "ok"
  /\ IsDefined(args.userId)
  /\ matched.cand # matched.rowSign
  /\ Len(writes) = 1
  /\ writes[1] \in DOMAIN localStorage

\* ---------------------------------------------------------------------------
\* Properties of the cache version
\* ---------------------------------------------------------------------------
\* The key k carries the current cache version.
HasCurrentVersion(k) ==
  /\ Len(k) > Len(CACHE_VERSION)
  /\ SubSeq(k, 1, Len(CACHE_VERSION) + 1) = CACHE_VERSION \o ":"

\* The keys of localStorage written under another cache version.
OtherVersionKeys == {k \in DOMAIN localStorage : ~HasCurrentVersion(k)}

\* C11: an entry stored under a key of another cache version is never
\* returned: every key the call reads carries the current version, and a row
\* returned from the cache is the entry of the last key read, not the content
\* of an entry of another version.
C11_OtherVersionNeverReturned ==
  /\ \A i \in 1..Len(probes) : HasCurrentVersion(probes[i])
  /\ source = "cache" =>
        /\ HasCurrentVersion(probes[Len(probes)])
        /\ probes[Len(probes)] \in DOMAIN localStorage
        /\ result = SanitizedRow(localStorage[probes[Len(probes)]].value)
        /\ \A k \in OtherVersionKeys :
              localStorage[k].json => result # SanitizedRow(localStorage[k].value)

\* The cache holds an entry of the previous version for a day, hemisphere and
\* sign that the call looked up under the current version; the call went on
\* to the store.
C11_Witness ==
  /\ pc = "done"
  /\ storageMode = "ok"
  /\ source # "cache"
  /\ \E k \in OtherVersionKeys :
        /\ localStorage[k].json
        /\ \E i \in 1..Len(probes) :
              /\ SubSeq(probes[i], 3, Len(probes[i])) = SubSeq(k, 3, Len(k))
              /\ IsCacheHit(localStorage[k].value, "2025-10-31", hemi, "Aries-Taurus")

\* ---------------------------------------------------------------------------
\* astronomy.ts: the offline planetary positions
\*
\* A longitude is given in whole thousandths of a degree and stands for the
\* double nearest to it; a degree within a sign is a whole number of
\* hundredths.  The arithmetic of lonToSignAndDegree is that of IEEE 754
\* binary64, digit by digit.  The ephemeris itself (geocentricLongitude) is
\* trigonometry on orbital elements; the model takes the longitudes it
\* returns, values in [0, 360), as given.
\* ---------------------------------------------------------------------------
ZODIAC_SIGNS_ARRAY ==
  << "Aries", "Taurus", "Gemini", "Cancer", "Leo", "Virgo",
     "Libra", "Scorpio", "Sagittarius", "Capricorn", "Aquarius", "Pisces" >>

\* n degrees as a longitude
Degrees(n) == n * 1000

\* A non-negative double in binary fixed point: whole is its whole part and
\* frac the binary digits after the point, the most significant first.  A
\* double keeps BinaryDigits significant digits.
BinaryDigits == 53

RECURSIVE BitLength(_)
BitLength(n) == IF n = 0 THEN 0 ELSE 1 + BitLength(n \div 2)

RECURSIVE LeadingZeros(_)
LeadingZeros(bits) ==
  IF Len(bits) = 0 \/ bits[1] = 1 THEN 0 ELSE 1 + LeadingZeros(Tail(bits))

\* The places after the point that a double keeps of v.
KeptPlaces(v) ==
  IF v.whole > 0 THEN BinaryDigits - BitLength(v.whole)
  ELSE LeadingZeros(v.frac) + BinaryDigits

\* The place of the last 0 among the digits, 0 if there is none.
LastZeroPlace(bits) ==
  IF \A i \in 1..Len(bits) : bits[i] = 1 THEN 0
  ELSE CHOOSE i \in 1..Len(bits) :
         bits[i] = 0 /\ \A j \in (i + 1)..Len(bits) : bits[j] = 1

\* v plus one unit of its last place, j being the place of its last 0.
NextUpAt(v, j) ==
  IF j = 0 THEN [whole |-> v.whole + 1, frac |-> [i \in 1..Len(v.frac) |-> 0]]
  ELSE [whole |-> v.whole,
        frac |-> [i \in 1..Len(v.frac) |->
                    IF i < j THEN v.frac[i] ELSE IF i = j THEN 1 ELSE 0]]

NextUp(v) == NextUpAt(v, LastZeroPlace(v.frac))

\* v rounded to `keep` places after the point, to the nearest and a tie to
\* the even neighbour.
RoundAt(v, keep) ==
  IF Len(v.frac) <= keep THEN v
  ELSE IF /\ v.frac[keep + 1] = 1
          /\ \/ \E i \in (keep + 2)..Len(v.frac) : v.frac[i] = 1
             \/ (IF keep > 0 THEN v.frac[keep] = 1 ELSE v.whole % 2 = 1)
       THEN NextUp([whole |-> v.whole, frac |-> SubSeq(v.frac, 1, keep)])
       ELSE [whole |-> v.whole, frac |-> SubSeq(v.frac, 1, keep)]

\* The double nearest to v: the result of every operation on doubles.
RoundToDouble(v) == RoundAt(v, KeptPlaces(v))

\* The eight binary digits of q < 256.
BlockOf(q) ==
  << (q \div 128) % 2, (q \div 64) % 2, (q \div 32) % 2, (q \div 16) % 2,
     (q \div 8) % 2, (q \div 4) % 2, (q \div 2) % 2, q % 2 >>

\* The number that the i-th block of eight digits stands for.
BlockValue(bits, i) ==
  bits[8 * i - 7] * 128 + bits[8 * i - 6] * 64 + bits[8 * i - 5] * 32
    + bits[8 * i - 4] * 16 + bits[8 * i - 3] * 8 + bits[8 * i - 2] * 4
    + bits[8 * i - 1] * 2 + bits[8 * i]

\* The digits filled up with zeros to whole blocks.
WholeBlocks(bits) == bits \o [i \in 1..((8 - (Len(bits) % 8)) % 8) |-> 0]

\* The binary digits of r / den (r < den) by long division, eight at a
\* time: `blocks` blocks, and a last 1 if the division has not come out
\* even.
RECURSIVE BinaryFraction(_, _, _)
BinaryFraction(r, den, blocks) ==
  IF r = 0 THEN <<>>
  ELSE IF blocks = 0 THEN <<1>>
  ELSE BlockOf((r * 256) \div den)
         \o BinaryFraction((r * 256) % den, den, blocks - 1)

\* The double nearest to n / den: the quotient is taken to more places
\* than a double keeps, the first 1 of a fraction being within the first
\* BitLength(den) places.
DoubleOfRatio(n, den) ==
  RoundToDouble([whole |-> n \div den,
                 frac |-> BinaryFraction(n % den, den,
                                         (BinaryDigits + BitLength(den)) \div 8 + 1)])

\* The double a longitude of |lon| thousandths stands for.
DoubleOfLongitude(lon) == DoubleOfRatio(IF lon < 0 THEN -lon ELSE lon, Degrees(1))

\* frac times the whole number c, from the last block (the i-th) on: the
\* digits and what is carried into the whole part.
RECURSIVE TimesFrom(_, _, _, _, _)
TimesFrom(bits, c, i, carry, out) ==
  IF i = 0 THEN [carry |-> carry, frac |-> out]
  ELSE TimesFrom(bits, c, i - 1, (BlockValue(bits, i) * c + carry) \div 256,
                 BlockOf((BlockValue(bits, i) * c + carry) % 256) \o out)

TimesFrac(bits, c) == TimesFrom(WholeBlocks(bits), c, Len(WholeBlocks(bits)) \div 8, 0, <<>>)

TimesOf(v, c, product) == [whole |-> v.whole * c + product.carry, frac |-> product.frac]

\* v * c
Times(v, c) == RoundToDouble(TimesOf(v, c, TimesFrac(v.frac, c)))

\* v % 360 (exact)
Mod360(v) == [whole |-> v.whole % 360, frac |-> v.frac]

\* v + 360
Plus360(v) == RoundToDouble([whole |-> v.whole + 360, frac |-> v.frac])

\* -v + 360, for v < 360
Minus360(v) ==
  IF \A i \in 1..Len(v.frac) : v.frac[i] = 0
  THEN [whole |-> 360 - v.whole, frac |-> <<>>]
  ELSE RoundToDouble(NextUp([whole |-> 359 - v.whole,
                             frac |-> [i \in 1..Len(v.frac) |-> 1 - v.frac[i]]]))

\* Math.round of a non-negative double: halves go up.
MathRound(v) == v.whole + (IF Len(v.frac) > 0 /\ v.frac[1] = 1 THEN 1 ELSE 0)

\* Math.round(x * 100) / 100 of the double x, in hundredths.
RoundToHundredths(x) == MathRound(Times(x, 100))

\* ((lon % 360) + 360) % 360; the remainder has the sign of lon.
norm360(lon) ==
  Mod360(IF lon >= 0 THEN Plus360(Mod360(DoubleOfLongitude(lon)))
         ELSE Minus360(Mod360(DoubleOfLongitude(lon))))

\* lonToSignAndDegree from L and signIndex on
SignAndDegreeOf(L, signIndex) ==
  [sign |-> ZODIAC_SIGNS_ARRAY[signIndex + 1],
   degree |-> RoundToHundredths([whole |-> L.whole - signIndex * 30, frac |-> L.frac])]

lonToSignAndDegree(lon) == SignAndDegreeOf(norm360(lon), norm360(lon).whole \div 30)

\* ((lon2 - lon1 + 540) % 360) - 180
oneDayDelta(lon1, lon2) == ((lon2 - lon1 + Degrees(540)) % Degrees(360)) - Degrees(180)

\* isRetrograde comparing the two longitudes as they are.
isRetrogradeWithoutWrap(lon1, lon2) == lon2 - lon1 < 0

\* isRetrograde, given the longitudes of the day and of the day after
isRetrograde(lon1, lon2) == oneDayDelta(lon1, lon2) < 0

PlanetNames == <<"Mercury", "Venus", "Mars", "Jupiter", "Saturn">>

\* names.map(...)
PlanetaryPositionsOf(ephemeris) ==
  [i \in 1..Len(PlanetNames) |->
     [planet |-> PlanetNames[i],
      sign |-> lonToSignAndDegree(ephemeris[i].today).sign,
      degree |-> lonToSignAndDegree(ephemeris[i].today).degree,
      retrograde |-> isRetrograde(ephemeris[i].today, ephemeris[i].tomorrow)]]

\* Longitudes the ephemeris may return: around 0, around the sign
\* boundaries, two that end in 5 thousandths, where the rounding of the
\* binary fraction decides (1.005 gives 1.00, 12.345 gives 12.35), and
\* around the opposite point.
LongitudeSamples ==
  << 0, 4, 1000, 29994, 29996, 30000, 1005, 12345, 90004, 179999, 180000, 181000,
     359000, 359996 >>

\* The ephemeris in which planet i has sample k + i today and sample j - i a
\* day later.
Ephemeris(k, j) ==
  [i \in 1..Len(PlanetNames) |->
     [today |-> LongitudeSamples[((k + i) % Len(LongitudeSamples)) + 1],
      tomorrow |-> LongitudeSamples[((j + Len(LongitudeSamples) - i)
                                       % Len(LongitudeSamples)) + 1]]]

InitPlanets ==
  /\ env \in {e \in Environments : e.intlTimeZone = ""}
  /\ storageMode = "nowindow"
  /\ localStorage = EmptyStorage
  /\ pc = "idle"
  /\ args = NoArgs
  /\ hemi = "Southern"
  /\ anchors = <<>>
  /\ signAttempts = <<>>
  /\ ai = 0
  /\ outcome = "pending"
  /\ result = Null
  /\ source = "none"
  /\ matched = NoMatch
  /\ probes = <<>>
  /\ writes = <<>>
  /\ requests = <<>>
  /\ responses = <<>>
  /\ calls = 0
  /\ lons \in {Ephemeris(k, j) : k, j \in 0..(Len(LongitudeSamples) - 1)}
  /\ positions = <<>>
  /\ rawText = ""
  /\ cleanText = Undefined
  /\ rowLabel = ""
  /\ candLabel = ""
  /\ matchAnswer = Undefined
  /\ lastGoodPositions = <<>>
  /\ cacheWriter = <<>>
  /\ access = NoAccess
  /\ subscriptionScreen = NewSubscriptionScreen
  /\ mysticMish = NewMysticMish

\* getPlanetaryPositionsApprox(d)
GetPlanetaryPositionsApprox ==
  /\ lons # NoLongitudes
  /\ positions = <<>>
  /\ positions' = PlanetaryPositionsOf(lons)
  /\ UNCHANGED <<dailyVars, lons, rawText, cleanText>>
  /\ UNCHANGED further

NextPlanets == GetPlanetaryPositionsApprox

SpecPlanets == InitPlanets /\ [][NextPlanets]_vars

\* C12: getPlanetaryPositionsApprox returns five entries, Mercury, Venus,
\* Mars, Jupiter, Saturn in this order, each with one of the twelve signs (the
\* sign of the 30-degree sector of the longitude) and a degree d, in
\* hundredths, with 0 <= d < 30.
C12_FivePositionsWithDegreeBelow30 ==
  positions # <<>> =>
     /\ Len(positions) = 5
     /\ [i \in 1..5 |-> positions[i].planet] =
          <<"Mercury", "Venus", "Mars", "Jupiter", "Saturn">>
     /\ \A i \in 1..5 :
           /\ \E z \in 1..12 :
                 /\ positions[i].sign = ZODIAC_SIGNS_ARRAY[z]
                 /\ (z - 1) * 30000 <= lons[i].today
                 /\ lons[i].today < z * 30000
           /\ 0 <= positions[i].degree
           /\ positions[i].degree < 3000

\* The difference of the two longitudes of planet i, tomorrow less today.
LongitudeStep(i) == lons[i].tomorrow - lons[i].today

\* C13: a planet is flagged retrograde exactly when its signed one-day delta
\* is negative; the delta lies in [-180, 180) and differs from the difference
\* of the two longitudes by a multiple of 360, so the flag is set exactly when
\* the shorter way from today's longitude to tomorrow's runs backwards.
C13_RetrogradeIsNegativeDelta ==
  positions # <<>> =>
     \A i \in 1..Len(positions) :
        /\ positions[i].retrograde = (oneDayDelta(lons[i].today, lons[i].tomorrow) < 0)
        /\ -180000 <= oneDayDelta(lons[i].today, lons[i].tomorrow)
        /\ oneDayDelta(lons[i].today, lons[i].tomorrow) < 180000
        /\ (oneDayDelta(lons[i].today, lons[i].tomorrow) - LongitudeStep(i)) % 360000 = 0
        /\ positions[i].retrograde =
             \/ (-180000 <= LongitudeStep(i) /\ LongitudeStep(i) < 0)
             \/ LongitudeStep(i) >= 180000

\* Mercury goes forward through 0 degrees (359 to 1) and is not flagged;
\* another planet goes backward through 0 degrees and is flagged.
C13_Witness ==
  /\ positions # <<>>
  /\ lons[1].today = 359000 /\ lons[1].tomorrow = 1000 /\ ~positions[1].retrograde
  /\ \E i \in 2..5 :
        lons[i].today < 1001 /\ lons[i].tomorrow >= 359000 /\ positions[i].retrograde

\* ---------------------------------------------------------------------------
\* Re-normalization of sign labels
\* ---------------------------------------------------------------------------
\* C14: the candidates of a label are the candidates of its first candidate:
\* feeding the first candidate back with the same fallback setting gives the
\* same list.
C14_AttemptsOfFirstAttemptAreTheSame ==
  (pc = "done" /\ Len(signAttempts) > 0) =>
     buildSignAttemptsForDaily(signAttempts[1], args.allowTrueSignFallback) = signAttempts

\* ---------------------------------------------------------------------------
\* sanitizeUserFacingText on its own
\* ---------------------------------------------------------------------------
\* Lines of which texts are put together: empty, plain, with blanks around
\* and an en dash inside, with a marker in two letter cases (and an em dash),
\* blank, and with white space other than the blank (form feed, no-break
\* space) inside and at the end.
TextLines == {"", "ab", " c~d ", "Pumpkin pie", "a SAMHAIN^b", "  ", "a\fb&\f"}

MaxLines == 3

\* The texts of at most n lines (n >= 1).
RECURSIVE TextsUpTo(_)
TextsUpTo(n) ==
  IF n = 1 THEN TextLines
  ELSE TextsUpTo(n - 1) \cup {t \o "\n" \o l : t \in TextsUpTo(n - 1), l \in TextLines}

InitText ==
  /\ env \in {e \in Environments : e.intlTimeZone = ""}
  /\ storageMode = "nowindow"
  /\ localStorage = EmptyStorage
  /\ pc = "idle"
  /\ args = NoArgs
  /\ hemi = "Southern"
  /\ anchors = <<>>
  /\ signAttempts = <<>>
  /\ ai = 0
  /\ outcome = "pending"
  /\ result = Null
  /\ source = "none"
  /\ matched = NoMatch
  /\ probes = <<>>
  /\ writes = <<>>
  /\ requests = <<>>
  /\ responses = <<>>
  /\ calls = 0
  /\ lons = NoLongitudes
  /\ positions = <<>>
  /\ rawText \in TextsUpTo(MaxLines)
  /\ cleanText = Undefined
  /\ rowLabel = ""
  /\ candLabel = ""
  /\ matchAnswer = Undefined
  /\ lastGoodPositions = <<>>
  /\ cacheWriter = <<>>
  /\ access = NoAccess
  /\ subscriptionScreen = NewSubscriptionScreen
  /\ mysticMish = NewMysticMish

\* cleanText = sanitizeUserFacingText(rawText)
SanitizeText ==
  /\ cleanText = Undefined
  /\ cleanText' = Some(sanitizeUserFacingText(rawText))
  /\ UNCHANGED <<dailyVars, lons, positions, rawText>>
  /\ UNCHANGED further

NextText == SanitizeText

SpecText == InitText /\ [][NextText]_vars

\* The line contains a marker of the denylist in some letter case.
LineHasMarker(line) ==
  \E m \in {"halloween", "samhain", "veil walker", "pumpkin", "thinning veil"} :
     includes(toLowerCase(line), m)

\* The lines of the text, and those of them without a marker, with hyphens
\* for dashes.
LinesOfRawText == split(rawText, "\n")
KeptLines ==
  SelectSeq([i \in 1..Len(LinesOfRawText) |-> normalizeDashesToHyphen(LinesOfRawText[i])],
            LAMBDA l : ~LineHasMarker(l))

\* C15 as stated: a text without markers comes back with hyphens for dashes
\* and nothing else changed, white space at its ends included.
C15_MarkerFreeTextKeepsEveryCharacter ==
  (IsDefined(cleanText) /\ \A i \in 1..Len(LinesOfRawText) : ~LineHasMarker(LinesOfRawText[i]))
     => cleanText[1] = normalizeDashesToHyphen(rawText)

\* C15 amended: a text without markers comes back with hyphens for dashes
\* and without the white space at its two ends; nothing between its first and
\* last non-blank character changes, blank lines in the middle included.
C15_MarkerFreeTextIsTrimmedOnly ==
  (IsDefined(cleanText) /\ \A i \in 1..Len(LinesOfRawText) : ~LineHasMarker(LinesOfRawText[i]))
     => cleanText[1] = trim(normalizeDashesToHyphen(rawText))

\* A text without markers that has an empty line in the middle, a dash and
\* blanks at its end.
C15_Witness ==
  /\ rawText = "ab\n\n c~d "
  /\ cleanText = Some("ab\n\n c-d")

\* The text has several lines and a marker in at least one of them.
HasMarkerLineAmongSeveral ==
  /\ Len(LinesOfRawText) >= 2
  /\ \E i \in 1..Len(LinesOfRawText) : LineHasMarker(LinesOfRawText[i])

\* C16 as stated: the lines with a marker are removed and every other line
\* is kept, in order and unchanged apart from the dashes.
C16_ExactlyMarkerLinesRemoved ==
  (IsDefined(cleanText) /\ HasMarkerLineAmongSeveral) =>
     cleanText[1] = join(KeptLines, "\n")

\* The places of the lines of K that are not blank.
NonBlankPlaces(K) == {i \in 1..Len(K) : trim(K[i]) # ""}

\* The lines from place f to place l of K, the first without its leading and
\* the last without its trailing white space.
TrimmedBlock(K, f, l) ==
  [j \in 1..(l - f + 1) |->
     IF f = l THEN trim(K[f])
     ELSE IF j = 1 THEN trimStart(K[f])
     ELSE IF j = l - f + 1 THEN trimEnd(K[l])
     ELSE K[f + j - 1]]

\* The lines the sanitized text must have, given the kept lines K and the
\* places P of the non-blank ones.
ExpectedLines(K, P) ==
  IF P = {} THEN <<"">>
  ELSE TrimmedBlock(K, CHOOSE f \in P : \A i \in P : f <= i,
                       CHOOSE l \in P : \A i \in P : i <= l)

\* C16 amended: the lines with a marker (in any letter case) are removed
\* wherever they sit, the blank lines left at the two ends are dropped and the
\* first and last remaining line lose their outer white space; every line in
\* between is kept in order, unchanged apart from the dashes.
C16_MarkerLinesRemovedThenTrimmed ==
  (IsDefined(cleanText) /\ HasMarkerLineAmongSeveral) =>
     split(cleanText[1], "\n") = ExpectedLines(KeptLines, NonBlankPlaces(KeptLines))

\* A marker line between two lines: it is gone, the lines around it are kept
\* in order and the blanks at the end of the text are gone.
C16_Witness ==
  /\ rawText = "ab\nPumpkin pie\n c~d "
  /\ cleanText = Some("ab\n c-d")

\* ---------------------------------------------------------------------------
\* Properties of the cache phase
\* ---------------------------------------------------------------------------
\* The anchor day and the candidate of the n-th pass of the nested loops,
\* anchor outer, candidate inner.
AnchorOfPass(n) == anchors[((n - 1) \div Len(signAttempts)) + 1]
CandidateOfPass(n) == signAttempts[((n - 1) % Len(signAttempts)) + 1]

\* The entry read in the n-th pass is a row of the day, hemisphere and
\* candidate of that pass.
EntryFitsPass(n) ==
  /\ storageMode \in {"ok", "full"}
  /\ probes[n] \in DOMAIN localStorage
  /\ localStorage[probes[n]].json
  /\ localStorage[probes[n]].value.date = AnchorOfPass(n)
  /\ localStorage[probes[n]].value.hemisphere = hemi
  /\ localStorage[probes[n]].value.sign = CandidateOfPass(n)

\* C17: the cache phase reads the keys anchor by anchor and, within an
\* anchor, candidate by candidate; it stops at the first entry whose date,
\* hemisphere and sign are those of the pass and returns it at once, with no
\* store request in that call; without such an entry it reads every key.
C17_CachePhaseOrderAndFirstHit ==
  /\ Len(probes) <= Len(anchors) * Len(signAttempts)
  /\ \A n \in 1..Len(probes) :
        probes[n] = cacheKeyDaily(args.userId, CandidateOfPass(n), hemi, AnchorOfPass(n))
  /\ source = "cache" =>
        /\ pc = "done"
        /\ requests = <<>>
        /\ responses = <<>>
        /\ writes = <<>>
        /\ EntryFitsPass(Len(probes))
        /\ \A n \in 1..(Len(probes) - 1) : ~EntryFitsPass(n)
        /\ result = SanitizedRow(localStorage[probes[Len(probes)]].value)
  /\ (pc # "idle" /\ source # "cache" /\ args.useCache # Some(FALSE)) =>
        /\ Len(probes) = Len(anchors) * Len(signAttempts)
        /\ writes = <<>> => \A n \in 1..Len(probes) : ~EntryFitsPass(n)
  /\ (pc # "idle" /\ args.useCache = Some(FALSE)) => probes = <<>>

\* A hit in the third anchor, after an entry of another day and a value that
\* is not JSON were read and passed: no store request was made.
C17_Witness ==
  /\ pc = "done"
  /\ source = "cache"
  /\ Len(probes) > 2 * Len(signAttempts)
  /\ \E n \in 1..(Len(probes) - 1) :
        probes[n] \in DOMAIN localStorage /\ localStorage[probes[n]].json
  /\ \E n \in 1..(Len(probes) - 1) :
        probes[n] \in DOMAIN localStorage /\ ~localStorage[probes[n]].json
  /\ requests = <<>>

\* ---------------------------------------------------------------------------
\* Properties of the order of the store requests
\* ---------------------------------------------------------------------------
\* C18: the store requests of one call go out one at a time.  At most one
\* request is without its response, and the call awaits exactly then; the
\* k-th request is the request of the k-th anchor, so there is at most one
\* request per anchor and request k+1 exists only when request k has its
\* response; the request whose rows held a match is the last one.
C18_StoreRequestsAreSequential ==
  /\ Len(requests) - Len(responses) \in {0, 1}
  /\ (Len(requests) = Len(responses) + 1) <=> (pc = "await")
  /\ Len(requests) <= Len(anchors)
  /\ \A k \in 1..Len(requests) :
        requests[k] = [date |-> anchors[k], hemisphere |-> hemi]
  /\ \A k \in 1..Len(responses) : MatchedAt(k) => Len(requests) = k

\* The third request is out and awaited, after the first was answered with
\* an error and the second with rows of which none matched.
C18_Witness ==
  /\ pc = "await"
  /\ Len(requests) = 3
  /\ Len(responses) = 2
  /\ responses[1] = "error"
  /\ RowsWithoutMatchAt(2)

\* ---------------------------------------------------------------------------
\* Termination of the store phase
\* ---------------------------------------------------------------------------
\* The call has returned from the store phase: with a row of the store or
\* with null, after at most one request per anchor, each of them answered.
ReturnedFromStore ==
  /\ pc = "done"
  /\ outcome = "resolved"
  /\ (source = "store" /\ result # Null) \/ (source = "none" /\ result = Null)
  /\ Len(requests) <= Len(anchors)
  /\ Len(responses) = Len(requests)

\* C19: when every request is answered, a call that entered the store phase
\* returns, with a row or with null, after at most one request per anchor;
\* and while a request is unanswered nothing but its answer moves the call:
\* the call does not return, sends no request for the next anchor and does
\* not leave the await.
C19_TerminatesIffRequestsComplete ==
  /\ (pc \in {"store", "await"}) ~> ReturnedFromStore
  /\ [][pc = "await" =>
          /\ Len(responses') = Len(responses) + 1
          /\ requests' = requests]_vars

\* A call returned null after a request for each of three anchors, every
\* one of them answered.
C19_Witness ==
  /\ ReturnedFromStore
  /\ result = Null
  /\ Len(anchors) = 3
  /\ Len(requests) = 3

\* ---------------------------------------------------------------------------
\* buildDailyAnchors on its own, over instants and zones
\* ---------------------------------------------------------------------------
\* The instants run from 2025-10-31T20:00Z in steps of two hours: the day
\* and the month change at UTC and in Los Angeles, and at 10:00Z the zones
\* of the model are on three different days.  Three more instants are ones
\* whose day depends on daylight time: 2025-11-03T07:00Z and
\* 2025-12-25T07:00Z (standard time in Los Angeles: the evening before) and
\* 2025-07-01T13:00Z (standard time in Sydney: 23:00 of the same day).
MaxSteps == 8
DaylightInstants ==
  { DaysFromCivil(2025, 11, 3) * HoursPerDay + 7,
    DaysFromCivil(2025, 12, 25) * HoursPerDay + 7,
    DaysFromCivil(2025, 7, 1) * HoursPerDay + 13 }
AnchorInstants == {NowInstant + 2 * k : k \in 0..(MaxSteps - 1)} \cup DaylightInstants

\* Intl reports any zone or nothing; the device clock is in any zone.
AnchorEnvironments ==
  { [now |-> t, intlTimeZone |-> i, deviceTimeZone |-> z] :
      t \in AnchorInstants,
      i \in TimeZones \cup {""},
      z \in TimeZones }

InitAnchors ==
  /\ env \in AnchorEnvironments
  /\ storageMode = "nowindow"
  /\ localStorage = EmptyStorage
  /\ pc = "idle"
  /\ args = NoArgs
  /\ hemi = "Southern"
  /\ anchors = <<>>
  /\ signAttempts = <<>>
  /\ ai = 0
  /\ outcome = "pending"
  /\ result = Null
  /\ source = "none"
  /\ matched = NoMatch
  /\ probes = <<>>
  /\ writes = <<>>
  /\ requests = <<>>
  /\ responses = <<>>
  /\ calls = 0
  /\ lons = NoLongitudes
  /\ positions = <<>>
  /\ rawText = ""
  /\ cleanText = Undefined
  /\ rowLabel = ""
  /\ candLabel = ""
  /\ matchAnswer = Undefined
  /\ lastGoodPositions = <<>>
  /\ cacheWriter = <<>>
  /\ access = NoAccess
  /\ subscriptionScreen = NewSubscriptionScreen
  /\ mysticMish = NewMysticMish

\* anchors = buildDailyAnchors(new Date())
BuildDailyAnchors ==
  /\ pc = "idle"
  /\ pc' = "done"
  /\ anchors' = buildDailyAnchors(env.now, env)
  /\ UNCHANGED <<env, storageMode, localStorage, args, hemi, signAttempts, ai, outcome,
                 result, source, matched, probes, writes, requests, responses, calls>>
  /\ UNCHANGED outside

NextAnchors == BuildDailyAnchors

SpecAnchors == InitAnchors /\ [][NextAnchors]_vars

\* The five days of the claim, in its order: today in the user's zone, today
\* at UTC, today on the device, yesterday and tomorrow in the user's zone.
FiveDays ==
  << ymdInTZ(env.now, getUserTimeZone(env)),
     anchorUTC(env.now),
     anchorLocal(env.now, env),
     ymdInTZ(env.now - HoursPerDay, getUserTimeZone(env)),
     ymdInTZ(env.now + HoursPerDay, getUserTimeZone(env)) >>

\* The first place of day x among the five days, 0 if it is not among them.
FirstPlace(x) == MinOrZero({j \in 1..Len(FiveDays) : FiveDays[j] = x})

\* x is one of the three days called today.
IsTodayAnchor(x) == \E j \in 1..3 : FiveDays[j] = x

\* x reads YYYY-MM-DD.
IsCalendarDay(x) == Len(x) = 10 /\ CharAt(x, 5) = "-" /\ CharAt(x, 8) = "-"

\* C20: buildDailyAnchors returns one to five calendar days, no day twice;
\* they are the five days above in the order of their first places; the
\* first is today in the user's zone, and a day that is only yesterday or
\* tomorrow comes after every day that is a today.
C20_AnchorsAreDistinctDaysInOrder ==
  pc = "done" =>
    /\ Len(anchors) \in 1..5
    /\ \A i \in 1..Len(anchors) : IsCalendarDay(anchors[i])
    /\ \A i, j \in 1..Len(anchors) : i < j => anchors[i] # anchors[j]
    /\ {anchors[i] : i \in 1..Len(anchors)} = {FiveDays[j] : j \in 1..Len(FiveDays)}
    /\ \A i, j \in 1..Len(anchors) :
          i < j => FirstPlace(anchors[i]) < FirstPlace(anchors[j])
    /\ anchors[1] = FiveDays[1]
    /\ \A i, j \in 1..Len(anchors) :
          (IsTodayAnchor(anchors[i]) /\ ~IsTodayAnchor(anchors[j])) => i < j

\* The user's zone, UTC and the device are on three different days; the day
\* of the device is none of the user's three, and the user's yesterday comes
\* after it.
C20_Witness ==
  /\ pc = "done"
  /\ Len(anchors) = 4
  /\ FiveDays[3] \notin {FiveDays[1], FiveDays[4], FiveDays[5]}
  /\ FiveDays[2] = FiveDays[5]
  /\ anchors = <<FiveDays[1], FiveDays[2], FiveDays[3], FiveDays[4]>>

\* ---------------------------------------------------------------------------
\* rowMatchesSign on its own, over pairs of labels
\* ---------------------------------------------------------------------------
\* Signs as a store row or a candidate may spell them: letter case, dashes,
\* white space (blank, form feed, no-break space, vertical tab, a space
\* separator), the suffix present, missing or doubled, and no label at all.
MatchLabels ==
  { "", " ", "Aries", "aries", "ARIES  cusp", "Aries Cusp", "Aries-Taurus",
    "aries~taurus", "Aries-Taurus Cusp", "aries^taurus  CUSP ", "aries - taurus",
    "Taurus", "Taurus-Aries", "cusp", "Ariescusp", "Aries Cusp Cusp", "Aries-",
    "Aries\fCusp", "aries&-|taurus%" }

InitMatch ==
  /\ env \in {e \in Environments : e.intlTimeZone = ""}
  /\ storageMode = "nowindow"
  /\ localStorage = EmptyStorage
  /\ pc = "idle"
  /\ args = NoArgs
  /\ hemi = "Southern"
  /\ anchors = <<>>
  /\ signAttempts = <<>>
  /\ ai = 0
  /\ outcome = "pending"
  /\ result = Null
  /\ source = "none"
  /\ matched = NoMatch
  /\ probes = <<>>
  /\ writes = <<>>
  /\ requests = <<>>
  /\ responses = <<>>
  /\ calls = 0
  /\ lons = NoLongitudes
  /\ positions = <<>>
  /\ rawText = ""
  /\ cleanText = Undefined
  /\ rowLabel \in MatchLabels
  /\ candLabel \in MatchLabels
  /\ matchAnswer = Undefined
  /\ lastGoodPositions = <<>>
  /\ cacheWriter = <<>>
  /\ access = NoAccess
  /\ subscriptionScreen = NewSubscriptionScreen
  /\ mysticMish = NewMysticMish

\* matchAnswer = rowMatchesSign(rowLabel, candLabel)
MatchSigns ==
  /\ matchAnswer = Undefined
  /\ matchAnswer' = Some(rowMatchesSign(rowLabel, candLabel))
  /\ UNCHANGED <<dailyVars, lons, positions, rawText, cleanText, rowLabel, candLabel>>
  /\ UNCHANGED <<lastGoodPositions, cacheWriter, apart>>

SpecMatch == InitMatch /\ [][MatchSigns]_vars

\* The forms of a label the claim compares: the label lowercased, with its
\* dashes unified and its white space collapsed, as it stands and with a
\* trailing "cusp" taken off it.
ComparedForms(s) ==
  {canonSignForCompare(s), stripTrailingCusp(canonSignForCompare(s))}

\* One label is the other with the suffix " Cusp" added.
DifferBySuffix(a, b) ==
  /\ canonSignForCompare(b) # ""
  /\ canonSignForCompare(a) = canonSignForCompare(b) \o " cusp"

\* C21: rowMatchesSign is true exactly when neither label is empty and a
\* compared form of the one is a compared form of the other; it gives the
\* same answer with its arguments exchanged; a label and the same label
\* with the suffix "Cusp" match, whichever of the two is the row.
C21_MatchIsEqualityUpToCusp ==
  IsDefined(matchAnswer) =>
    /\ matchAnswer[1] <=>
          /\ rowLabel # ""
          /\ candLabel # ""
          /\ ComparedForms(rowLabel) \cap ComparedForms(candLabel) # {}
    /\ matchAnswer[1] <=> rowMatchesSign(candLabel, rowLabel)
    /\ (rowLabel = "" \/ candLabel = "") => ~matchAnswer[1]
    /\ (DifferBySuffix(rowLabel, candLabel) \/ DifferBySuffix(candLabel, rowLabel))
          => matchAnswer[1]

\* A row stored without the suffix and with an en dash matched a candidate
\* with the suffix.
C21_Witness ==
  /\ rowLabel = "aries~taurus"
  /\ candLabel = "Aries-Taurus Cusp"
  /\ matchAnswer = Some(TRUE)

\* ---------------------------------------------------------------------------
\* astronomy.ts: normalizePlanetaryPositions and the table lastGoodPositions.
\* Longitudes are in thousandths of a degree, as above; the degree of a raw
\* item and of a position is the double itself.
\* ---------------------------------------------------------------------------
\* A RawPlanet with none of its optional fields.
EmptyRaw ==
  [name |-> Undefined, planet |-> Undefined, sign |-> Undefined, degree |-> Undefined,
   ecliptic_longitude |-> Undefined, longitude |-> Undefined, lon |-> Undefined,
   lng |-> Undefined, retrograde |-> Undefined, speed |-> Undefined,
   source |-> Undefined]

\* n.replace(/_/g, ' '): one character
UnderscoreToSpace(c) == IF c = "_" THEN " " ELSE c

RECURSIVE ReplaceUnderscores(_)
ReplaceUnderscores(n) ==
  IF Len(n) = 0 THEN ""
  ELSE UnderscoreToSpace(CharAt(n, 1)) \o ReplaceUnderscores(SubSeq(n, 2, Len(n)))

\* .replace(/^\w/, c => c.toUpperCase()) of a lowercased string
UpperFirst(n) ==
  IF Len(n) = 0 THEN "" ELSE toUpperChar(CharAt(n, 1)) \o SubSeq(n, 2, Len(n))

normalizePlanetName(n) ==
  IF ~IsDefined(n) \/ n = Some("") THEN ""
  ELSE UpperFirst(toLowerCase(ReplaceUnderscores(n[1])))

\* raw.name || raw.planet
NameOrPlanet(raw) ==
  IF IsDefined(raw.name) /\ raw.name # Some("") THEN raw.name ELSE raw.planet

\* normalizePlanetName(raw.name || raw.planet) || 'Planet'
NameOfRaw(raw) ==
  IF normalizePlanetName(NameOrPlanet(raw)) # ""
  THEN normalizePlanetName(NameOrPlanet(raw)) ELSE "Planet"

\* Boolean(raw.retrograde ?? (typeof raw.speed === 'number' ? raw.speed < 0 : false) ?? ...)
RetroOfRaw(raw) ==
  IF IsDefined(raw.retrograde) THEN raw.retrograde[1]
  ELSE IsDefined(raw.speed) /\ raw.speed[1] < 0

\* The first of the four longitude fields that is a number, Undefined for null.
getLon(raw) ==
  IF IsDefined(raw.ecliptic_longitude) THEN raw.ecliptic_longitude
  ELSE IF IsDefined(raw.longitude) THEN raw.longitude
  ELSE IF IsDefined(raw.lon) THEN raw.lon
  ELSE raw.lng

\* !!src && /calc|mock|approx/i.test(src)
isCalcSource(src) ==
  /\ IsDefined(src)
  /\ \E w \in {"calc", "mock", "approx"} : includes(toLowerCase(src[1]), w)

\* A position's degree is a double, as above, written with no zeros at the
\* end of its binary digits, so that equal doubles are equal values.
LastOnePlace(bits) ==
  IF \A i \in 1..Len(bits) : bits[i] = 0 THEN 0
  ELSE CHOOSE i \in 1..Len(bits) :
         bits[i] = 1 /\ \A j \in (i + 1)..Len(bits) : bits[j] = 0

Shortest(v) == [whole |-> v.whole, frac |-> SubSeq(v.frac, 1, LastOnePlace(v.frac))]

\* The double of the whole number n.
WholeNumber(n) == [whole |-> n, frac |-> <<>>]

\* The double that k hundredths of a degree stand for: k / 100.
DoubleOfHundredths(k) == Shortest(DoubleOfRatio(k, 100))

\* base + v, base a whole number
WholePlus(base, v) == RoundToDouble([whole |-> base + v.whole, frac |-> v.frac])

\* base - v, base a whole number above v
WholeMinus(base, v) ==
  IF \A i \in 1..Len(v.frac) : v.frac[i] = 0
  THEN WholeNumber(base - v.whole)
  ELSE RoundToDouble(NextUp([whole |-> base - 1 - v.whole,
                             frac |-> [i \in 1..Len(v.frac) |-> 1 - v.frac[i]]]))

\* Math.min(29, v)
Min29(v) == IF v.whole >= 29 THEN WholeNumber(29) ELSE v

\* daysSinceBase * rate without its sign: the product of the double rate
\* and the whole number of days, rounded as every product of doubles is.
DriftOf(rate, daysSinceBase) ==
  Times(rate, IF daysSinceBase < 0 THEN -daysSinceBase ELSE daysSinceBase)

\* Math.max(0, Math.min(29, base + daysSinceBase * rate)), drift being
\* |daysSinceBase * rate|: a sum that is not above 0 gives 0.
LegacyDegreeOf(base, daysSinceBase, drift) ==
  IF daysSinceBase >= 0 THEN Min29(WholePlus(base, drift))
  ELSE IF drift.whole >= base THEN WholeNumber(0)
  ELSE Min29(WholeMinus(base, drift))

\* Math.max(0, Math.min(29, base + daysSinceBase * rate)): the double that
\* the expression gives, not rounded to any number of decimal places.
LegacyDegree(base, rate, daysSinceBase) ==
  Shortest(LegacyDegreeOf(base, daysSinceBase, DriftOf(rate, daysSinceBase)))

\* The legacy placeholder, given the whole days since 2025-08-13 on the
\* Sydney clock.  The rates are the doubles of 1.2, 0.8, 0.3, 0.05, 0.02.
getCurrentPlanetaryPositions(daysSinceBase) ==
  << [planet |-> "Mercury", sign |-> "Leo",
      degree |-> LegacyDegree(28, DoubleOfRatio(12, 10), daysSinceBase),
      retrograde |-> FALSE],
     [planet |-> "Venus", sign |-> "Virgo",
      degree |-> LegacyDegree(18, DoubleOfRatio(8, 10), daysSinceBase),
      retrograde |-> FALSE],
     [planet |-> "Mars", sign |-> "Gemini",
      degree |-> LegacyDegree(22, DoubleOfRatio(3, 10), daysSinceBase),
      retrograde |-> FALSE],
     [planet |-> "Jupiter", sign |-> "Gemini",
      degree |-> LegacyDegree(14, DoubleOfRatio(5, 100), daysSinceBase),
      retrograde |-> FALSE],
     [planet |-> "Saturn", sign |-> "Pisces",
      degree |-> LegacyDegree(19, DoubleOfRatio(2, 100), daysSinceBase),
      retrograde |-> TRUE] >>

\* Raw items of a provider: a full position, a placeholder of degree 0 with
\* a longitude beside it and the sign that the legacy table has for the
\* planet, a placeholder of a planet the legacy table does not have, a
\* computed item of degree 0, a bare longitude on a sign boundary, and an
\* item with a name and nothing else.
RawItems ==
  { [EmptyRaw EXCEPT !.name = Some("mars"), !.sign = Some("Leo"),
                     !.degree = Some(DoubleOfHundredths(1250))],
    [EmptyRaw EXCEPT !.planet = Some("MARS"), !.sign = Some("Gemini"),
                     !.degree = Some(WholeNumber(0)),
                     !.longitude = Some(45000), !.source = Some("api")],
    [EmptyRaw EXCEPT !.name = Some("pluto"), !.sign = Some("Leo"),
                     !.degree = Some(WholeNumber(0)), !.source = Some("api")],
    [EmptyRaw EXCEPT !.name = Some("pluto"), !.sign = Some("Leo"),
                     !.degree = Some(WholeNumber(0)),
                     !.lon = Some(61500), !.source = Some("Approx-Engine"),
                     !.speed = Some(-1)],
    [EmptyRaw EXCEPT !.name = Some("Mars"), !.ecliptic_longitude = Some(30000),
                     !.source = Some("api")],
    [EmptyRaw EXCEPT !.name = Some("mars")] }

\* The name and the kind of source of the raw items above, computed once.
RawFacts ==
  [raw \in RawItems |-> [name |-> NameOfRaw(raw), calc |-> isCalcSource(raw.source)]]

FactsOf(raw) ==
  IF raw \in RawItems THEN RawFacts[raw]
  ELSE [name |-> NameOfRaw(raw), calc |-> isCalcSource(raw.source)]

\* lastGoodPositions.set(name, pos)
MapSet(table, name, pos) ==
  [n \in DOMAIN table \cup {name} |-> IF n = name THEN pos ELSE table[n]]

\* One pass of the loop that ends in set and push, in push alone or in
\* neither: the table and what was pushed.
SetAndPush(table, pos) == [table |-> MapSet(table, pos.planet, pos), pushed |-> <<pos>>]
PushOnly(table, pos) == [table |-> table, pushed |-> <<pos>>]
Skip(table) == [table |-> table, pushed |-> <<>>]

\* const { sign, degree } = lonToSignAndDegree(lon): the degree is the
\* double Math.round(x * 100) / 100.
SignAndDegreeOfLon(lon) ==
  [sign |-> lonToSignAndDegree(lon).sign,
   degree |-> DoubleOfHundredths(lonToSignAndDegree(lon).degree)]

\* The same for the longitudes of the raw items, computed once.
SignAndDegreeTable ==
  [lon \in {getLon(raw)[1] : raw \in {r \in RawItems : IsDefined(getLon(r))}} |->
     SignAndDegreeOfLon(lon)]

SignAndDegree(lon) ==
  IF lon \in DOMAIN SignAndDegreeTable THEN SignAndDegreeTable[lon]
  ELSE SignAndDegreeOfLon(lon)

\* { planet: name, sign, degree, retrograde: retro } from a longitude
PositionFromLon(raw, lon) ==
  [planet |-> FactsOf(raw).name, sign |-> SignAndDegree(lon).sign,
   degree |-> SignAndDegree(lon).degree, retrograde |-> RetroOfRaw(raw)]

\* { planet: name, sign: raw.sign, degree, retrograde: retro }
PositionFromRaw(raw, degree) ==
  [planet |-> FactsOf(raw).name, sign |-> raw.sign[1], degree |-> degree,
   retrograde |-> RetroOfRaw(raw)]

\* fallbackPositions.find(p => p.planet === name): its index, 0 if none
FindPlanet(ps, name) == MinOrZero({i \in 1..Len(ps) : ps[i].planet = name})

\* The pass for a raw item that has a sign and degree 0, keeping the raw
\* position in the table when nothing better is known.
ZeroDegreePassStoresRaw(raw, table, fallback) ==
  IF FactsOf(raw).calc /\ IsDefined(getLon(raw))
  THEN SetAndPush(table, PositionFromLon(raw, getLon(raw)[1]))
  ELSE SetAndPush(table, PositionFromRaw(raw, WholeNumber(0)))

\* The pass for a raw item that has a sign and degree 0.
ZeroDegreePass(raw, table, fallback) ==
  IF FactsOf(raw).calc /\ IsDefined(getLon(raw))
  THEN SetAndPush(table, PositionFromLon(raw, getLon(raw)[1]))
  ELSE IF FactsOf(raw).name \in DOMAIN table
  THEN PushOnly(table, table[FactsOf(raw).name])
  ELSE IF FindPlanet(fallback, FactsOf(raw).name) > 0
  THEN SetAndPush(table, fallback[FindPlanet(fallback, FactsOf(raw).name)])
  ELSE PushOnly(table, PositionFromRaw(raw, WholeNumber(0)))

\* The pass for a raw item without a usable sign and degree.
LongitudePass(raw, table) ==
  IF IsDefined(getLon(raw))
  THEN SetAndPush(table, PositionFromLon(raw, getLon(raw)[1]))
  ELSE IF FactsOf(raw).name \in DOMAIN table
  THEN PushOnly(table, table[FactsOf(raw).name])
  ELSE Skip(table)

\* raw.sign && typeof raw.degree === 'number'
HasSignAndDegree(raw) ==
  IsDefined(raw.sign) /\ raw.sign # Some("") /\ IsDefined(raw.degree)

\* The body of the loop of normalizePlanetaryPositions for one raw item.
NormalizeOne(raw, table, fallback) ==
  IF HasSignAndDegree(raw) /\ raw.degree[1] # WholeNumber(0)
  THEN SetAndPush(table, PositionFromRaw(raw, raw.degree[1]))
  ELSE IF HasSignAndDegree(raw)
  THEN ZeroDegreePass(raw, table, fallback)
  ELSE LongitudePass(raw, table)

\* The loop from item i of rawList on; soFar holds what was pushed so far.
RECURSIVE NormalizeFrom(_, _, _, _, _)
NormalizeFrom(rawList, i, table, soFar, fallback) ==
  IF i > Len(rawList) THEN [table |-> table, result |-> soFar]
  ELSE NormalizeFrom(rawList, i + 1,
                     NormalizeOne(rawList[i], table, fallback).table,
                     soFar \o NormalizeOne(rawList[i], table, fallback).pushed,
                     fallback)

MaxRaw == 1
RawLists == UNION {[1..n -> RawItems] : n \in 0..MaxRaw}

\* The Sydney clock is before or after 2025-08-13: days on which the legacy
\* degrees are held at 0 or at 29, and days on which they are sums that no
\* whole number of hundredths equals.
DaysSinceBase == {-80, -23, 3, 79}

\* getCurrentPlanetaryPositions() on these days, computed once.
LegacyTable == [d \in DaysSinceBase |-> getCurrentPlanetaryPositions(d)]

LegacyPositions(daysSinceBase) ==
  IF daysSinceBase \in DOMAIN LegacyTable THEN LegacyTable[daysSinceBase]
  ELSE getCurrentPlanetaryPositions(daysSinceBase)

\* normalizePlanetaryPositions: the table afterwards and the list returned
normalizePlanetaryPositions(rawList, table, daysSinceBase) ==
  NormalizeFrom(rawList, 1, table, <<>>, LegacyPositions(daysSinceBase))

\* normalizePlanetaryPositions(rawList) is called.
NormalizePlanetaryPositions ==
  /\ \E rawList \in RawLists, d \in DaysSinceBase :
        lastGoodPositions' = normalizePlanetaryPositions(rawList, lastGoodPositions, d).table
  /\ UNCHANGED <<dailyVars, lons, positions, rawText, cleanText,
                 rowLabel, candLabel, matchAnswer, cacheWriter, apart>>

\* ---------------------------------------------------------------------------
\* The Mish helpers of daily.ts: clearMysticMishArtifacts, broadcastMishNotice
\* ---------------------------------------------------------------------------
MishCandidates ==
  << "mish.ritual", "mish.ritual.current", "mysticMish.tabRitual",
     "cusp_ritual_cache", "ritual_text" >>

MishKeys == {MishCandidates[i] : i \in 1..Len(MishCandidates)}

\* An item of localStorage that is not a cached row: the text it holds, and
\* the value if the text is the JSON of one.
StoredText(itemText) == [json |-> FALSE, value |-> Null, text |-> itemText]

\* JSON.stringify of a string without its quotes, one character at a time.
JSONChar(c) ==
  CASE c = "\"" -> "\\\""
    [] c = "\\" -> "\\\\"
    [] c = "\n" -> "\\n"
    [] c = "\t" -> "\\t"
    [] c = "\r" -> "\\r"
    [] c = "\f" -> "\\f"
    [] c = VERTICAL_TAB -> "\\u000b"
    [] OTHER -> c

RECURSIVE JSONString(_)
JSONString(s) ==
  IF Len(s) = 0 THEN ""
  ELSE IF Len(s) = 1 THEN JSONChar(s)
  ELSE JSONString(SubSeq(s, 1, Len(s) \div 2))
         \o JSONString(SubSeq(s, (Len(s) \div 2) + 1, Len(s)))

\* { title: 'Mystic Mish', body: sanitizeUserFacingText(message), version: 'daily-utils' }
MishPayload(message) ==
  [title |-> "Mystic Mish", body |-> sanitizeUserFacingText(message),
   version |-> "daily-utils"]

\* JSON.stringify(payload)
PayloadText(payload) ==
  "{\"title\":\"" \o JSONString(payload.title) \o "\",\"body\":\""
    \o JSONString(payload.body) \o "\",\"version\":\""
    \o JSONString(payload.version) \o "\"}"

StoredPayload(payload) == [json |-> TRUE, value |-> payload, text |-> PayloadText(payload)]

\* The message by default and one with a marker line and an en dash.
DefaultMishMessage ==
  "November gateway active. Tap Mish on the Daily page to load todays rite here."
MishMessages == {DefaultMishMessage, "Samhain eve\nNovember ~ gateway"}

MishNoticeTable == [m \in MishMessages |-> StoredPayload(MishPayload(m))]

\* What broadcastMishNotice(message) stores under 'mish.ritual'.
StoredNotice(message) ==
  IF message \in DOMAIN MishNoticeTable THEN MishNoticeTable[message]
  ELSE StoredPayload(MishPayload(message))

\* window.localStorage.getItem(k) || ''
ItemOrEmpty(storage, k) == IF k \in DOMAIN storage THEN storage[k].text ELSE ""

\* HALLOWEEN_MARKERS.some(m => v.toLowerCase().includes(m)), computed once
\* for the texts the model stores under the candidates.
MarkerTable ==
  [v \in {"", "Samhain rite", "plain"} \cup {MishNoticeTable[m].text : m \in MishMessages} |->
     ~HasNoMarker(v)]

HasMarker(v) == IF v \in DOMAIN MarkerTable THEN MarkerTable[v] ELSE ~HasNoMarker(v)

\* The keys clearMysticMishArtifacts removes: the candidates whose text
\* holds a marker in any letter case.
SpookyKeys(storage) == {k \in MishKeys : HasMarker(ItemOrEmpty(storage, k))}

\* localStorage after clearMysticMishArtifacts(): nothing happens without a
\* window or when the storage throws; a full storage still removes.
clearMysticMishArtifacts(storage, mode) ==
  IF mode \in {"nowindow", "denied"} THEN storage
  ELSE [k \in DOMAIN storage \ SpookyKeys(storage) |-> storage[k]]

\* localStorage after broadcastMishNotice(message): setItem throws without
\* effect when the storage is denied or full.  (The event 'mish:ritual' that
\* is dispatched after it has no listener in daily.ts.)
broadcastMishNotice(storage, mode, message) ==
  IF mode # "ok" THEN storage
  ELSE [k \in DOMAIN storage \cup {"mish.ritual"} |->
          IF k = "mish.ritual" THEN StoredNotice(message) ELSE storage[k]]

\* The variables of getDailyForecast other than localStorage.
callVars == <<env, storageMode, pc, args, hemi, anchors, signAttempts,
              ai, outcome, result, source, matched, probes, writes, requests,
              responses, calls>>

\* clearMysticMishArtifacts() is called.
ClearMysticMishArtifacts ==
  /\ localStorage' = clearMysticMishArtifacts(localStorage, storageMode)
  /\ UNCHANGED <<callVars, outside>>

\* broadcastMishNotice(message) is called.
BroadcastMishNotice ==
  /\ \E message \in MishMessages :
        localStorage' = broadcastMishNotice(localStorage, storageMode, message)
  /\ UNCHANGED <<callVars, outside>>

\* The entries of earlier sessions and two items of the Mish tab, one of
\* them with a marker.
StorageWithMishItems ==
  [k \in DOMAIN LegacyStorage \cup {"mish.ritual", "ritual_text"} |->
     IF k = "mish.ritual" THEN StoredText("Samhain rite")
     ELSE IF k = "ritual_text" THEN StoredText("plain")
     ELSE LegacyStorage[k]]

\* The process-wide state together: calls of getDailyForecast on one device,
\* calls of the Mish helpers and calls of normalizePlanetaryPositions, in
\* any order.
\* The device has entries of earlier sessions in its cache and makes the
\* last of its calls of getDailyForecast.
InitState ==
  /\ env \in {e \in Environments : e.intlTimeZone = "Australia/Sydney"}
  /\ storageMode \in {"ok", "full"}
  /\ localStorage = StorageWithMishItems
  /\ pc = "idle"
  /\ args = NoArgs
  /\ hemi = "Southern"
  /\ anchors = <<>>
  /\ signAttempts = <<>>
  /\ ai = 0
  /\ outcome = "pending"
  /\ result = Null
  /\ source = "none"
  /\ matched = NoMatch
  /\ probes = <<>>
  /\ writes = <<>>
  /\ requests = <<>>
  /\ responses = <<>>
  /\ calls = MaxCalls - 1
  /\ lons = NoLongitudes
  /\ positions = <<>>
  /\ rawText = ""
  /\ cleanText = Undefined
  /\ rowLabel = ""
  /\ candLabel = ""
  /\ matchAnswer = Undefined
  /\ lastGoodPositions = <<>>
  /\ cacheWriter = <<>>
  /\ access = NoAccess
  /\ subscriptionScreen = NewSubscriptionScreen
  /\ mysticMish = NewMysticMish

NextState ==
  \/ Next
  \/ NormalizePlanetaryPositions
  \/ ClearMysticMishArtifacts
  \/ BroadcastMishNotice

SpecState == InitState /\ [][NextState]_vars

\* p is the position a raw item gives by its own sign and non-zero degree.
FromGoodRaw(p) ==
  \E raw \in RawItems :
     /\ HasSignAndDegree(raw)
     /\ raw.degree[1] # WholeNumber(0)
     /\ p = PositionFromRaw(raw, raw.degree[1])

\* p is computed from the longitude of a raw item that has no sign and
\* degree of its own, or has degree 0 and a computed source.
FromLongitude(p) ==
  \E raw \in RawItems :
     /\ IsDefined(getLon(raw))
     /\ HasSignAndDegree(raw) => (raw.degree[1] = WholeNumber(0) /\ FactsOf(raw).calc)
     /\ p = PositionFromLon(raw, getLon(raw)[1])

\* p is a position of the legacy placeholder table.
FromLegacy(p) ==
  \E d \in DaysSinceBase :
     \E i \in 1..Len(LegacyPositions(d)) : p = LegacyPositions(d)[i]

\* p is the sign and the degree 0 of a raw item whose source is not computed.
IsPlaceholderOfRaw(p) ==
  \E raw \in RawItems :
     /\ HasSignAndDegree(raw)
     /\ raw.degree[1] = WholeNumber(0)
     /\ ~FactsOf(raw).calc
     /\ p = PositionFromRaw(raw, WholeNumber(0))

\* The entries of lastGoodPositions' that the step set.
SetByStep == {n \in DOMAIN lastGoodPositions' :
                n \notin DOMAIN lastGoodPositions
                  \/ lastGoodPositions'[n] # lastGoodPositions[n]}

\* The daily cache: the items of localStorage under keys of cacheKeyDaily,
\* of this version and of any other of its length.
IsDailyKey(k) == SubSeq(k, Len(CACHE_VERSION) + 1, Len(CACHE_VERSION) + 7) = ":daily:"
DailyKeys(storage) == {d \in DOMAIN storage : IsDailyKey(d)}
DailyCache(storage) == [k \in DailyKeys(storage) |-> storage[k]]

\* The other items of localStorage.
OtherItems(storage) == [k \in {d \in DOMAIN storage : ~IsDailyKey(d)} |-> storage[k]]

\* A step treats the daily cache as overwrite-only: it removes no key of
\* the daily cache; the cache changes only in the step in which a store
\* request is answered with a matching row, and then in the one key handed
\* to setInCache; a call hands at most one key to setInCache, and only on a
\* store hit; a cache hit and a not-found leave the cache as it was.  The
\* items of localStorage that are not of the daily cache change only in
\* steps that are none of getDailyForecast (the Mish helpers, which set and
\* remove them).
CacheIsOverwriteOnly ==
  /\ localStorage' # localStorage =>
        /\ DailyKeys(localStorage) \subseteq DailyKeys(localStorage')
        /\ DailyCache(localStorage') # DailyCache(localStorage) =>
              /\ pc = "await"
              /\ source' = "store"
              /\ writes' # <<>>
              /\ DOMAIN localStorage' = DOMAIN localStorage \cup {writes'[1]}
              /\ \A k \in DOMAIN localStorage :
                    k # writes'[1] => localStorage'[k] = localStorage[k]
        /\ (source' = "cache" \/ (pc' = "done" /\ result' = Null)) =>
              DailyCache(localStorage') = DailyCache(localStorage)
        /\ OtherItems(localStorage') # OtherItems(localStorage) =>
              UNCHANGED <<callVars, cacheWriter>>
  /\ Len(writes') <= 1
  /\ writes' # <<>> => source' = "store"

\* A step removes no name of lastGoodPositions, and an entry that it sets
\* is filed under the name of its planet.
TableIsOverwriteOnly ==
  /\ DOMAIN lastGoodPositions \subseteq DOMAIN lastGoodPositions'
  /\ \A n \in SetByStep : lastGoodPositions'[n].planet = n

\* C22 as stated: both pieces of state are overwrite-only as above, and
\* normalizePlanetaryPositions never stores a position of degree 0 that is
\* taken from a source that is not computed: an entry of degree 0 that a
\* step sets is one that lonToSignAndDegree computed from a longitude.
C22_StoresNoZeroOfPlainSource ==
  [][ /\ CacheIsOverwriteOnly
      /\ TableIsOverwriteOnly
      /\ \A n \in SetByStep :
            lastGoodPositions'[n].degree = WholeNumber(0) =>
               FromLongitude(lastGoodPositions'[n])
    ]_vars

\* C22: both pieces of state are overwrite-only as above, and an entry that
\* a step sets in lastGoodPositions is a raw position of non-zero degree, a
\* position computed from a longitude, or the position that the legacy
\* table has for the planet, stored for a planet that had no entry.  An
\* entry of degree 0 is therefore computed from a longitude or is the
\* legacy position of a day on which the legacy degree is held at 0; the
\* sign and degree 0 of a raw item of a planet that the legacy table does
\* not have are never stored.
C22_ProcessStateIsOverwriteOnly ==
  [][ /\ CacheIsOverwriteOnly
      /\ TableIsOverwriteOnly
      /\ \A n \in SetByStep :
            /\ \/ FromGoodRaw(lastGoodPositions'[n])
               \/ FromLongitude(lastGoodPositions'[n])
               \/ /\ n \notin DOMAIN lastGoodPositions
                  /\ FromLegacy(lastGoodPositions'[n])
            /\ lastGoodPositions'[n].degree = WholeNumber(0) =>
                  \/ FromLongitude(lastGoodPositions'[n])
                  \/ lastGoodPositions'[n] \in
                       {LegacyPositions(d)[FindPlanet(LegacyPositions(d), n)] :
                          d \in {e \in DaysSinceBase :
                                   FindPlanet(LegacyPositions(e), n) > 0}}
    ]_vars

\* A call wrote its store row into the cache beside the entries that were
\* there, and clearMysticMishArtifacts has removed the item 'mish.ritual'
\* with its marker and left 'ritual_text'; the table holds for Mars the
\* legacy position of degree 0 that was stored 80 days before the base date
\* for the placeholder of the same sign and degree 0 (source 'api'), and
\* for Pluto a position computed from a longitude.
C22_Witness ==
  /\ pc = "done"
  /\ source = "store"
  /\ Len(writes) = 1
  /\ writes[1] \in DOMAIN localStorage
  /\ writes[1] \notin DOMAIN LegacyStorage
  /\ DOMAIN LegacyStorage \subseteq DOMAIN localStorage
  /\ "mish.ritual" \notin DOMAIN localStorage
  /\ "ritual_text" \in DOMAIN localStorage
  /\ DOMAIN lastGoodPositions = {"Mars", "Pluto"}
  /\ lastGoodPositions["Mars"] = LegacyPositions(-80)[3]
  /\ lastGoodPositions["Mars"].degree = WholeNumber(0)
  /\ IsPlaceholderOfRaw(lastGoodPositions["Mars"])
  /\ FromLongitude(lastGoodPositions["Pluto"])

\* ---------------------------------------------------------------------------
\* C23: a repeated call after a store hit
\* ---------------------------------------------------------------------------
\* The cache phase of a call that repeats the finished call of this state:
\* the same sign label, hemisphere, user and day give the same hemi, anchors
\* and signAttempts, and the call reads the localStorage of this state.
RepeatedCachePhase ==
  CachePhase(localStorage, storageMode, args.userId, hemi, anchors, signAttempts)

\* The call has resolved a row from the store with the cache switched on and
\* localStorage working.
ResolvedFromStoreWithCache ==
  /\ pc = "done"
  /\ outcome = "resolved"
  /\ source = "store"
  /\ args.useCache # Some(FALSE)
  /\ storageMode = "ok"

\* C23: after a call resolved a row from the store with caching enabled, the
\* same call made again at once is served from the cache: its cache phase
\* ends with a hit (so it sends no store request) and returns the same row,
\* however the store spells the sign of the row.
C23_RepeatedCallIsServedFromCache ==
  ResolvedFromStoreWithCache =>
    /\ RepeatedCachePhase.end = "hit"
    /\ RepeatedCachePhase.row = result

\* ---------------------------------------------------------------------------
\* C24: the option useCache
\* ---------------------------------------------------------------------------
\* Calls of getDailyForecast with useCache omitted, true and false and
\* without the fallback to the true sign, on a device in Sydney whose cache
\* may hold entries of earlier sessions.
InitCache ==
  /\ Init
  /\ env.intlTimeZone = "Australia/Sydney"

CallWithUseCache ==
  \E s \in SignInputs, h \in HemisphereInputs, u \in UserIds, f \in ForceDates,
     uc \in UseCacheValues :
     Call(s, h, u, f, uc, FALSE)

NextCache ==
  \/ CallWithUseCache
  \/ Fetch
  \/ NotFound
  \/ RespondRows
  \/ RespondError
  \/ Finish

SpecCache == InitCache /\ [][NextCache]_vars

\* The call is past its cache phase.
CallIsRunning == pc \in {"store", "await", "done"}

\* The row the call returned from the store was handed to setInCache once,
\* and where localStorage takes writes it is the entry of that key.
StoreHitIsWritten ==
  source = "store" =>
    /\ Len(writes) = 1
    /\ storageMode = "ok" =>
          /\ writes[1] \in DOMAIN localStorage
          /\ localStorage[writes[1]] = JSON_stringify(result)

\* C24: with useCache false the call reads no cache key and never returns a
\* cached row, yet a store hit still writes the sanitized row into the cache;
\* with useCache omitted or true the call reads the cache (the key of its
\* first anchor and first candidate at least) and a store hit writes too.
C24_UseCacheGuardsTheReadOnly ==
  CallIsRunning =>
    /\ args.useCache = Some(FALSE) =>
          /\ probes = <<>>
          /\ source # "cache"
    /\ (args.useCache # Some(FALSE) /\ anchors # <<>> /\ signAttempts # <<>>) =>
          /\ probes # <<>>
          /\ probes[1] = cacheKeyDaily(args.userId, signAttempts[1], hemi, anchors[1])
    /\ StoreHitIsWritten

\* With useCache false a call went to the store although localStorage held a
\* valid entry under the key of its first anchor and first candidate, and it
\* wrote the row it found there.
C24_Witness ==
  /\ pc = "done"
  /\ source = "store"
  /\ storageMode = "ok"
  /\ args.useCache = Some(FALSE)
  /\ probes = <<>>
  /\ localStorage[writes[1]] = JSON_stringify(result)
  /\ IsCacheHit(getFromCache(localStorage, storageMode,
                             cacheKeyDaily(args.userId, signAttempts[1], hemi, anchors[1])).value,
                anchors[1], hemi, signAttempts[1])
  /\ writes[1] # cacheKeyDaily(args.userId, signAttempts[1], hemi, anchors[1])

\* ---------------------------------------------------------------------------
\* C25: the cache phase comes before the store phase
\* ---------------------------------------------------------------------------
\* The store holds, for the first anchor of the call, a row that one of the
\* candidates matches.
StoreMatchesFirstAnchor ==
  FirstMatchingCandidate(fetchRowsForDate(anchors[1], hemi, FALSE).rows, signAttempts) > 0

\* C25: a call that has sent a store request has, unless useCache is false,
\* read the cache for every anchor and every candidate before; and a call
\* that returns a cached row has sent no store request at all, whatever
\* anchor the cached row is of and whatever the store holds.
C25_CachePhaseBeforeStore ==
  CallIsRunning =>
    /\ (requests # <<>> /\ args.useCache # Some(FALSE)) =>
          Len(probes) = Len(anchors) * Len(signAttempts)
    /\ source = "cache" =>
          /\ requests = <<>>
          /\ responses = <<>>
          /\ writes = <<>>

\* A cached row of a later anchor was returned, with no store request, while
\* the store holds a matching row for the first anchor.
C25_Witness ==
  /\ pc = "done"
  /\ source = "cache"
  /\ requests = <<>>
  /\ Len(anchors) > 1
  /\ result.date # anchors[1]
  /\ \E k \in 2..Len(anchors) : result.date = anchors[k]
  /\ StoreMatchesFirstAnchor

\* ---------------------------------------------------------------------------
\* C26: cache entries per user
\* ---------------------------------------------------------------------------
\* The key under which the call found the cached row it returned: the last
\* key it read.
KeyOfCacheHit == probes[Len(probes)]

\* C26: a call never returns a cache entry that a call for another user
\* stored: the entry a call returns from the cache is one an earlier session
\* left in the namespace of the caller, or one that a call with the same
\* userId stored; calls without a userId read and write the namespace anon.
C26_CacheEntriesArePerUser ==
  /\ source = "cache" =>
        /\ SubSeq(KeyOfCacheHit, 1, 10 + Len(UserPartOfCall)) =
              "v3:daily:" \o UserPartOfCall \o ":"
        /\ KeyOfCacheHit \in DOMAIN cacheWriter =>
              cacheWriter[KeyOfCacheHit] = args.userId
        /\ KeyOfCacheHit \notin DOMAIN cacheWriter =>
              /\ KeyOfCacheHit \in DOMAIN LegacyStorage
              /\ ~IsDefined(args.userId)
  /\ \A k \in DOMAIN cacheWriter :
        /\ k \in DOMAIN localStorage
        /\ ~IsDefined(cacheWriter[k]) => SubSeq(k, 1, 14) = "v3:daily:anon:"

\* A call for user u1 went to the store and stored its row although the
\* cache holds the same row, of the same sign, hemisphere and day, stored by
\* a call without userId; and it was not given that entry.
C26_Witness ==
  /\ pc = "done"
  /\ source = "store"
  /\ args.userId = Some("u1")
  /\ args.useCache # Some(FALSE)
  /\ \E k \in DOMAIN cacheWriter :
        /\ cacheWriter[k] = Undefined
        /\ localStorage[k] = JSON_stringify(result)
        /\ k = cacheKeyDaily(Undefined, result.sign, hemi, result.date)
        /\ \E c \in 1..Len(signAttempts) : signAttempts[c] = result.sign

\* ---------------------------------------------------------------------------
\* C27: a result answers the request
\* ---------------------------------------------------------------------------
\* Hemisphere arguments and the spellings among them that mean Northern.
HemisphereSamples ==
  {"NH", "nh", "Nh", "Northern", "NORTHERN", "northern", "nOrThErN",
   "SH", "Southern", "north", "N", " nh", "northern ", "Northern Hemisphere", ""}

NorthernSpellings == {"NH", "nh", "Nh", "Northern", "NORTHERN", "northern", "nOrThErN"}

\* hemiToDB of each sample, computed once.
HemisphereTable == [h \in HemisphereSamples |-> hemiToDB(Some(h))]

\* hemiToDB gives Northern for the Northern spellings and Southern for every
\* other sample and for a missing value.
HemiToDBIsAsStated ==
  /\ \A h \in HemisphereSamples :
        HemisphereTable[h] = (IF h \in NorthernSpellings THEN "Northern" ELSE "Southern")
  /\ hemiToDB(Undefined) = "Southern"

\* The call has returned a row.
ReturnedRow == pc = "done" /\ outcome = "resolved" /\ result # Null

\* C27: a row that getDailyForecast returns is of one of the anchors of the
\* call (of the forced date, if one was given), of the normalized requested
\* hemisphere, and of a sign that rowMatchesSign accepts for at least one of
\* the sign candidates of the call; the normalized hemisphere is Northern
\* for NH and Northern in any letter case and Southern for every other and
\* for a missing value.
C27_ResultAnswersTheRequest ==
  ReturnedRow =>
    /\ anchors = AnchorsOf(args.forceDate, env)
    /\ \E a \in 1..Len(anchors) : result.date = anchors[a]
    /\ IsDefined(args.forceDate) => result.date = args.forceDate[1]
    /\ hemi = hemiToDB(args.hemisphereIn)
    /\ HemiToDBIsAsStated
    /\ result.hemisphere = hemi
    /\ signAttempts = SignAttemptsFor(args.signIn, args.allowTrueSignFallback)
    /\ \E c \in 1..Len(signAttempts) : Matches(result.sign, signAttempts[c])

\* A row of a later anchor was returned from the store for the argument NH,
\* its sign spelled unlike every candidate; no date was forced.
C27_Witness ==
  /\ ReturnedRow
  /\ source = "store"
  /\ args.hemisphereIn = Some("NH")
  /\ args.forceDate = Undefined
  /\ result.hemisphere = "Northern"
  /\ result.date # anchors[1]
  /\ \A c \in 1..Len(signAttempts) : signAttempts[c] # result.sign

\* ---------------------------------------------------------------------------
\* getAccessibleHoroscope
\* ---------------------------------------------------------------------------
\* a || b for two optional strings.
OrElse(a, b) == IF IsDefined(a) /\ a[1] # "" THEN a ELSE b

\* A user object: the fields the wrapper reads, each a string or missing.
User(cuspName, primarySign, preferredSign, hemisphere, id, email) ==
  [cuspName |-> cuspName, primarySign |-> primarySign, preferred_sign |-> preferredSign,
   hemisphere |-> hemisphere, id |-> id, email |-> email]

\* user is null or undefined: every user?.field is undefined.
NoUser == User(Undefined, Undefined, Undefined, Undefined, Undefined, Undefined)

Users ==
  { NoUser,
    User(Some("Aries-Taurus Cusp"), Some("Aries"), Undefined, Some("NH"), Undefined, Undefined),
    User(Some(""), Some("Aries"), Some("Taurus"), Some("Northern"), Undefined, Some("a@b.c")),
    User(Undefined, Undefined, Some("aries - taurus"), Some("northern"), Some("u1"), Undefined),
    User(Undefined, Undefined, Some("Taurus"), Some("SH"), Some(""), Some("")) }

\* The hemisphere the wrapper hands on.
HemisphereOfUser(user) ==
  IF user.hemisphere = Some("NH") \/ user.hemisphere = Some("SH")
  THEN user.hemisphere
  ELSE OrElse(user.hemisphere, Some("Southern"))

\* user?.cuspResult?.cuspName || user?.cuspResult?.primarySign || user?.preferred_sign || ''
SignLabelOfUser(user) ==
  OrElse(user.cuspName, OrElse(user.primarySign, OrElse(user.preferred_sign, Some(""))))[1]

\* user?.id || user?.email
UserIdOfUser(user) == OrElse(user.id, user.email)

\* The option useCache of the wrapper taken over from its caller.
UseCacheOfCaller(useCache) == useCache

\* The option useCache the wrapper hands to getDailyForecast, given the one
\* it was called with.
UseCacheOfWrapper(useCache) == Some(FALSE)

\* The sign candidates of the labels of Users, computed once.
UserAttemptsTable ==
  [u \in Users |->
     buildSignAttemptsForDaily(SignLabelOfUser(u), ~HasWordCusp(SignLabelOfUser(u)))]

\* getDailyForecast as the wrapper calls it for the user.
CallForUser(user, forceDate, useCache) ==
  /\ pc = "idle"
  /\ calls < MaxCalls
  /\ args' = [signIn |-> SignLabelOfUser(user), hemisphereIn |-> HemisphereOfUser(user),
              userId |-> UserIdOfUser(user), forceDate |-> forceDate,
              useCache |-> UseCacheOfWrapper(useCache),
              allowTrueSignFallback |-> ~HasWordCusp(SignLabelOfUser(user))]
  /\ CallWith(UserIdOfUser(user), UseCacheOfWrapper(useCache),
              hemiToDB(HemisphereOfUser(user)), AnchorsOf(forceDate, env),
              UserAttemptsTable[user])
  /\ ai' = 1
  /\ calls' = calls + 1
  /\ matched' = NoMatch
  /\ writes' = <<>>
  /\ requests' = <<>>
  /\ responses' = <<>>
  /\ UNCHANGED <<env, storageMode, localStorage>>

\* getAccessibleHoroscope(user, opts) up to its await of getDailyForecast.
GetAccessibleHoroscope ==
  /\ access.stage # "awaiting"
  /\ \E user \in Users, forceDate \in ForceDates, useCache \in UseCacheValues :
        /\ CallForUser(user, forceDate, useCache)
        /\ access' = [stage |-> "awaiting", useCache |-> useCache, value |-> Null]
  /\ UNCHANGED <<lons, positions, rawText, cleanText,
                 rowLabel, candLabel, matchAnswer, lastGoodPositions, cacheWriter>>
  /\ UNCHANGED <<subscriptionScreen, mysticMish>>

\* What the wrapper returns for the row of getDailyForecast.
AccessibleValue(row) ==
  IF row = Null THEN Null
  ELSE [date |-> row.date, sign |-> row.sign, hemisphere |-> row.hemisphere,
        daily |-> Sanitized(row.daily_horoscope),
        affirmation |-> Sanitized(row.affirmation),
        deeper |-> Sanitized(row.deeper_insight),
        raw |-> row]

\* The promise of getDailyForecast has resolved: the wrapper returns.
AccessibleReturns ==
  /\ pc = "done"
  /\ outcome = "resolved"
  /\ access.stage = "awaiting"
  /\ access' = [access EXCEPT !.stage = "returned", !.value = AccessibleValue(result)]
  /\ UNCHANGED dailyVars
  /\ UNCHANGED <<lons, positions, rawText, cleanText,
                 rowLabel, candLabel, matchAnswer, lastGoodPositions, cacheWriter>>
  /\ UNCHANGED <<subscriptionScreen, mysticMish>>

\* Screens that read the daily text through the wrapper only.
NextAccess ==
  \/ GetAccessibleHoroscope
  \/ Fetch
  \/ NotFound
  \/ RespondRows
  \/ RespondError
  \/ AccessibleReturns
  \/ Finish

SpecAccess == Init /\ [][NextAccess]_vars

\* C28: getAccessibleHoroscope calls getDailyForecast with useCache false
\* whatever useCache its caller gave, so the call reads no cache key and
\* its row is never a cached one; when the wrapper returns, at least one
\* store request was sent, and the wrapper returns null if and only if
\* getDailyForecast resolved to null.
C28_WrapperNeverReadsTheCache ==
  /\ access.stage = "awaiting" =>
        /\ args.useCache = Some(FALSE)
        /\ probes = <<>>
        /\ source # "cache"
  /\ (access.stage = "returned" /\ pc = "done") =>
        /\ args.useCache = Some(FALSE)
        /\ probes = <<>>
        /\ source # "cache"
        /\ Len(requests) >= 1
        /\ access.value = Null <=> result = Null
        /\ access.value # Null => access.value.raw = result

\* The wrapper, called with useCache true, returned a row of the store
\* although localStorage holds a valid entry for the first key of the call.
C28_Witness ==
  /\ access.stage = "returned"
  /\ pc = "done"
  /\ access.useCache = Some(TRUE)
  /\ access.value # Null
  /\ source = "store"
  /\ IsCacheHit(getFromCache(localStorage, storageMode,
                             cacheKeyDaily(args.userId, signAttempts[1], hemi, anchors[1])).value,
                anchors[1], hemi, signAttempts[1])
  /\ writes[1] # cacheKeyDaily(args.userId, signAttempts[1], hemi, anchors[1])

\* ---------------------------------------------------------------------------
\* SubscriptionScreen: the billing actions
\* ---------------------------------------------------------------------------
\* What getSubscriptionStatus can give: no subscription, a monthly and a
\* yearly one, and VIP access; plan "" stands for a missing plan.
SubStatus(active, plan, isVip) == [active |-> active, plan |-> plan, isVip |-> isVip]

SubStatuses ==
  { SubStatus(FALSE, "", FALSE), SubStatus(TRUE, "monthly", FALSE),
    SubStatus(TRUE, "yearly", FALSE), SubStatus(TRUE, "yearly", TRUE) }

isActive(status) == status # Null /\ status.active
isMonthly(status) == status # Null /\ status.plan = "monthly"
isVip(status) == status # Null /\ status.isVip

\* The button of the action is on the screen.
IsRendered(a, status) ==
  CASE a = "portal" -> isActive(status) /\ ~isVip(status)
    [] a = "upgrade" -> isActive(status) /\ ~isVip(status) /\ isMonthly(status)
    [] a \in {"monthly", "yearly"} -> ~isActive(status)
    [] a = "one-off" -> TRUE

\* The prop `disabled` of the button of the action.
IsDisabled(a, actionLoading, status) ==
  IF a \in {"portal", "upgrade"}
  THEN actionLoading = Some(a)
  ELSE actionLoading # Undefined \/ isVip(status)

\* The number of handlers that have not reached their finally.
InFlight(screen) ==
  screen.inFlight["portal"] + screen.inFlight["upgrade"] + screen.inFlight["monthly"]
    + screen.inFlight["yearly"] + screen.inFlight["one-off"]

MaxInFlight == 4

\* How a button is activated: by a touch, which is hit-tested, or by an
\* activation that is not (the keyboard on the web build, an accessibility
\* action).
PressModes == {"touch", "activation"}

\* The overlay of the running action is on the screen: it is the last child
\* of the content view and covers it, so that a touch lands on it.
IsOverlaid(actionLoading) == actionLoading # Undefined

\* The upgrade handlers that await upgradeToYearly.
Upgrading(screen) == screen.inFlight["upgrade"] - screen.refreshing - screen.resumed

BillingStep(new) ==
  /\ subscriptionScreen' = new
  /\ UNCHANGED <<dailyVars, lons, positions, rawText, cleanText>>
  /\ UNCHANGED <<rowLabel, candLabel, matchAnswer, lastGoodPositions, cacheWriter,
                 access, mysticMish>>

\* The getSubscriptionStatus awaited by the refreshStatus of the first
\* render has resolved: refreshStatus sets the status it got and returns;
\* the effect has not yet resumed, and loading is still true.
StatusLoaded ==
  /\ subscriptionScreen.mount = "fetching"
  /\ \E s \in SubStatuses \cup {Null} :
        BillingStep([subscriptionScreen EXCEPT !.status = s, !.mount = "resumed"])

\* The effect resumes after `await refreshStatus()`: finally ends loading.
LoadingEnds ==
  /\ subscriptionScreen.mount = "resumed"
  /\ BillingStep([subscriptionScreen EXCEPT !.loading = FALSE, !.mount = "done"])

\* The getSubscriptionStatus of the first render has rejected: catch, then
\* finally ends loading; the status stays null.
StatusFailed ==
  /\ subscriptionScreen.mount = "fetching"
  /\ BillingStep([subscriptionScreen EXCEPT !.loading = FALSE, !.mount = "done"])

\* The button of action a is activated: its handler runs to its first
\* await. While loading, no button is on the screen; a touch reaches the
\* button only if the overlay is not over it.
Press(a, mode) ==
  /\ ~subscriptionScreen.loading
  /\ IsRendered(a, subscriptionScreen.status)
  /\ ~IsDisabled(a, subscriptionScreen.actionLoading, subscriptionScreen.status)
  /\ mode = "touch" => ~IsOverlaid(subscriptionScreen.actionLoading)
  /\ InFlight(subscriptionScreen) < MaxInFlight
  /\ BillingStep([subscriptionScreen EXCEPT !.actionLoading = Some(a),
                                            !.inFlight[a] = subscriptionScreen.inFlight[a] + 1])

\* The awaited billing call of a handler of action a has settled (for
\* upgrade: upgradeToYearly has rejected): the handler runs through catch
\* and finally.
Settle(a) ==
  /\ IF a = "upgrade" THEN Upgrading(subscriptionScreen) > 0
                      ELSE subscriptionScreen.inFlight[a] > 0
  /\ BillingStep([subscriptionScreen EXCEPT !.actionLoading = Undefined,
                                            !.inFlight[a] = subscriptionScreen.inFlight[a] - 1])

\* upgradeToYearly has resolved: the handler calls refreshStatus, which
\* awaits getSubscriptionStatus.
UpgradeResolves ==
  /\ Upgrading(subscriptionScreen) > 0
  /\ BillingStep([subscriptionScreen EXCEPT !.refreshing = subscriptionScreen.refreshing + 1])

\* The getSubscriptionStatus of an upgrade handler has resolved:
\* refreshStatus sets the status it got and returns; the handler has not
\* yet resumed.
RefreshSetsStatus ==
  /\ subscriptionScreen.refreshing > 0
  /\ \E s \in SubStatuses \cup {Null} :
        BillingStep([subscriptionScreen EXCEPT !.status = s,
                                               !.refreshing = subscriptionScreen.refreshing - 1,
                                               !.resumed = subscriptionScreen.resumed + 1])

\* The getSubscriptionStatus of an upgrade handler has rejected: catch and
\* finally.
RefreshFails ==
  /\ subscriptionScreen.refreshing > 0
  /\ BillingStep([subscriptionScreen EXCEPT !.actionLoading = Undefined,
                                            !.refreshing = subscriptionScreen.refreshing - 1,
                                            !.inFlight["upgrade"] =
                                               subscriptionScreen.inFlight["upgrade"] - 1])

\* An upgrade handler resumes after `await refreshStatus()`: finally.
UpgradeSettles ==
  /\ subscriptionScreen.resumed > 0
  /\ BillingStep([subscriptionScreen EXCEPT !.actionLoading = Undefined,
                                            !.resumed = subscriptionScreen.resumed - 1,
                                            !.inFlight["upgrade"] =
                                               subscriptionScreen.inFlight["upgrade"] - 1])

NextBilling ==
  \/ StatusLoaded
  \/ LoadingEnds
  \/ StatusFailed
  \/ \E a \in BillingActions, mode \in PressModes : Press(a, mode)
  \/ \E a \in BillingActions : Settle(a)
  \/ UpgradeResolves
  \/ RefreshSetsStatus
  \/ RefreshFails
  \/ UpgradeSettles

\* The screen at its first render; the rest of the program at rest.
InitBilling ==
  /\ env = [now |-> NowInstant, intlTimeZone |-> "", deviceTimeZone |-> "Australia/Sydney"]
  /\ storageMode = "nowindow"
  /\ localStorage = EmptyStorage
  /\ pc = "idle"
  /\ args = NoArgs
  /\ hemi = "Southern"
  /\ anchors = <<>>
  /\ signAttempts = <<>>
  /\ ai = 0
  /\ outcome = "pending"
  /\ result = Null
  /\ source = "none"
  /\ matched = NoMatch
  /\ probes = <<>>
  /\ writes = <<>>
  /\ requests = <<>>
  /\ responses = <<>>
  /\ calls = 0
  /\ lons = NoLongitudes
  /\ positions = <<>>
  /\ rawText = ""
  /\ cleanText = Undefined
  /\ rowLabel = ""
  /\ candLabel = ""
  /\ matchAnswer = Undefined
  /\ lastGoodPositions = <<>>
  /\ cacheWriter = <<>>
  /\ access = NoAccess
  /\ subscriptionScreen = NewSubscriptionScreen
  /\ mysticMish = NewMysticMish

SpecBilling == InitBilling /\ [][NextBilling]_vars

\* C29: at most one billing action is in flight at any time: a handler
\* starts only while actionLoading is null, and actionLoading goes back to
\* null only in the step in which the action it names finishes, after which
\* no action is in flight.
C29_OneBillingActionAtATime ==
  [][ /\ InFlight(subscriptionScreen') <= 1
      /\ InFlight(subscriptionScreen') > InFlight(subscriptionScreen) =>
            subscriptionScreen.actionLoading = Undefined
      /\ (subscriptionScreen.actionLoading # Undefined
            /\ subscriptionScreen'.actionLoading = Undefined) =>
            /\ subscriptionScreen'.inFlight[subscriptionScreen.actionLoading[1]] =
                 subscriptionScreen.inFlight[subscriptionScreen.actionLoading[1]] - 1
            /\ InFlight(subscriptionScreen') = 0
    ]_vars

\* ---------------------------------------------------------------------------
\* MysticMish: the hemisphere effect and the work it leaves pending
\* ---------------------------------------------------------------------------
MaxEffectRuns == 2

\* The work started in effect run `run` is stale: the component has
\* unmounted, or the run was cleaned up because a later run replaced it.
IsStale(mish, run) == ~mish.mounted \/ run # mish.effectRun

\* The state setters and callbacks in `done`, if the work that called them
\* is stale.
Late(mish, run, done) == IF IsStale(mish, run) THEN done ELSE {}

MishStep(new) ==
  /\ mysticMish' = new
  /\ UNCHANGED <<dailyVars, lons, positions, rawText, cleanText>>
  /\ UNCHANGED <<rowLabel, candLabel, matchAnswer, lastGoodPositions, cacheWriter,
                 access, subscriptionScreen>>

\* The effect of [hemisphere] runs: after the first render, and again when
\* the prop hemisphere has changed, then after the cleanup of the run
\* before (isMounted.current = false; clearTimeout(timer)).  The run sets
\* isMounted.current = true, starts checkAccess and arms the timer.
EffectRuns ==
  /\ mysticMish.mounted
  /\ mysticMish.effectRun < MaxEffectRuns
  /\ MishStep([mysticMish EXCEPT
        !.isMounted = TRUE,
        !.effectRun = mysticMish.effectRun + 1,
        !.accessPending = mysticMish.accessPending \cup {mysticMish.effectRun + 1},
        !.timer = mysticMish.effectRun + 1])

\* The component unmounts: the cleanup of the last effect run.
Unmount ==
  /\ mysticMish.mounted
  /\ mysticMish.effectRun > 0
  /\ MishStep([mysticMish EXCEPT !.mounted = FALSE, !.isMounted = FALSE, !.timer = 0])

\* The timeout fires: isMounted.current holds, checkRitualTime starts, sets
\* the moon phase and awaits getCurrentPlanetaryPositionsEnhanced.
TimerFires ==
  /\ mysticMish.timer # 0
  /\ MishStep([mysticMish EXCEPT
        !.timer = 0,
        !.ritualPending =
           IF mysticMish.isMounted THEN mysticMish.ritualPending \cup {mysticMish.timer}
           ELSE mysticMish.ritualPending])

\* getNovemberSpellForTab() is not null: the clock, read at the call, shows
\* 20 November (RITUALS has the spell of that day for both hemispheres).
HasTabSpell(mish) == mish.isNov20

\* checkRitualTime from the end of its await on: setPlanetaryPositions (in
\* the try or in the catch), onRitualReveal(tabSpell) if there is a tab
\* spell and the prop is given, and, if isMounted.current, setCurrentRitual
\* and setIsVisible.
CheckRitualTimeResumes(run) ==
  /\ run \in mysticMish.ritualPending
  /\ MishStep([mysticMish EXCEPT
        !.ritualPending = mysticMish.ritualPending \ {run},
        !.planetaryPositions = "set",
        !.revealed = mysticMish.revealed
                       \/ (HasTabSpell(mysticMish) /\ mysticMish.onRitualReveal),
        !.currentRitual = IF mysticMish.isMounted THEN "teaser" ELSE mysticMish.currentRitual,
        !.isVisible = mysticMish.isMounted \/ mysticMish.isVisible,
        !.late = mysticMish.late
                   \cup Late(mysticMish, run, {"setPlanetaryPositions"})
                   \cup (IF HasTabSpell(mysticMish) /\ mysticMish.onRitualReveal
                         THEN Late(mysticMish, run, {"onRitualReveal"}) ELSE {})
                   \cup (IF mysticMish.isMounted
                         THEN Late(mysticMish, run, {"setCurrentRitual", "setIsVisible"})
                         ELSE {})])

\* checkAccess from the end of its await on: if isMounted.current,
\* setHasAccess(allowed), or setHasAccess(true) after an error.
CheckAccessResumes(run, allowed) ==
  /\ run \in mysticMish.accessPending
  /\ MishStep([mysticMish EXCEPT
        !.accessPending = mysticMish.accessPending \ {run},
        !.hasAccess = IF mysticMish.isMounted THEN allowed ELSE mysticMish.hasAccess,
        !.late = mysticMish.late
                   \cup (IF mysticMish.isMounted
                         THEN Late(mysticMish, run, {"setHasAccess"}) ELSE {})])

\* handleMishTap on the rendered component that is not animating:
\* setIsAnimating(true) and the start of the animation.
HandleMishTap ==
  /\ mysticMish.mounted
  /\ mysticMish.isVisible
  /\ ~mysticMish.isAnimating
  /\ MishStep([mysticMish EXCEPT
        !.isAnimating = mysticMish.isMounted,
        !.tapPending = mysticMish.tapPending \cup {mysticMish.effectRun}])

\* The tap animation has ended: its callback runs and, if
\* isMounted.current, calls setIsAnimating(false), setShowRitual(true) and
\* onRitualReveal?.(...), the last only if the prop is given.  The tap is
\* work of the mount, so it is stale once the component has unmounted.
TapAnimationEnds(run) ==
  /\ run \in mysticMish.tapPending
  /\ MishStep([mysticMish EXCEPT
        !.tapPending = mysticMish.tapPending \ {run},
        !.isAnimating = IF mysticMish.isMounted THEN FALSE ELSE mysticMish.isAnimating,
        !.showRitual = mysticMish.isMounted \/ mysticMish.showRitual,
        !.revealed = (mysticMish.isMounted /\ mysticMish.onRitualReveal)
                       \/ mysticMish.revealed,
        !.late = mysticMish.late
                   \cup (IF mysticMish.isMounted /\ ~mysticMish.mounted
                         THEN {"setIsAnimating", "setShowRitual"}
                                \cup (IF mysticMish.onRitualReveal
                                      THEN {"onRitualReveal"} ELSE {})
                         ELSE {})])

\* The popup is closed by its button or by the auto-hide timeout.
HideRitual ==
  /\ mysticMish.mounted
  /\ mysticMish.showRitual
  /\ MishStep([mysticMish EXCEPT !.showRitual = FALSE])

\* The device clock passes to 20 November, or leaves it: every `new Date()`
\* of getNovemberSpellForTab reads the clock anew.
ClockPasses ==
  /\ mysticMish.isNov20 \in BOOLEAN
  /\ MishStep([mysticMish EXCEPT !.isNov20 = ~mysticMish.isNov20])

NextMish ==
  \/ EffectRuns
  \/ ClockPasses
  \/ Unmount
  \/ TimerFires
  \/ \E run \in 1..MaxEffectRuns : CheckRitualTimeResumes(run)
  \/ \E run \in 1..MaxEffectRuns, allowed \in BOOLEAN : CheckAccessResumes(run, allowed)
  \/ HandleMishTap
  \/ \E run \in 1..MaxEffectRuns : TapAnimationEnds(run)
  \/ HideRitual

\* The component at its first render, on 20 November or on another day,
\* with or without the prop onRitualReveal; the rest of the program at rest.
InitMish ==
  /\ env = [now |-> NowInstant, intlTimeZone |-> "", deviceTimeZone |-> "Australia/Sydney"]
  /\ storageMode = "nowindow"
  /\ localStorage = EmptyStorage
  /\ pc = "idle"
  /\ args = NoArgs
  /\ hemi = "Southern"
  /\ anchors = <<>>
  /\ signAttempts = <<>>
  /\ ai = 0
  /\ outcome = "pending"
  /\ result = Null
  /\ source = "none"
  /\ matched = NoMatch
  /\ probes = <<>>
  /\ writes = <<>>
  /\ requests = <<>>
  /\ responses = <<>>
  /\ calls = 0
  /\ lons = NoLongitudes
  /\ positions = <<>>
  /\ rawText = ""
  /\ cleanText = Undefined
  /\ rowLabel = ""
  /\ candLabel = ""
  /\ matchAnswer = Undefined
  /\ lastGoodPositions = <<>>
  /\ cacheWriter = <<>>
  /\ access = NoAccess
  /\ subscriptionScreen = NewSubscriptionScreen
  /\ mysticMish \in {[NewMysticMish EXCEPT !.isNov20 = d, !.onRitualReveal = given] :
                       d, given \in BOOLEAN}

SpecMish == InitMish /\ [][NextMish]_vars

\* C30: pending work of a mount that has unmounted, or of an effect run that
\* was cleaned up, has no effect: it sets no component state and does not
\* call onRitualReveal.
C30_NoEffectAfterCleanup == mysticMish.late = {}
====
